---- MODULE Spec2Model ----
(***************************************************************************)
(* Model of package pretty's structural differ (src/pretty/diff.go):       *)
(* Diff / Pdiff, the recursive walker diffPrinter.diff with its cycle      *)
(* guard (aVisited / bVisited), the map key matcher keyDiff / keyEqual and *)
(* the path labelling relabel / printf.                                    *)
(*                                                                         *)
(* Go values are modelled as records [k, t, x]: k the reflect.Kind, t the  *)
(* type's String(), x the payload.  Pointers, slices and maps refer to a   *)
(* fixed heap, so value graphs may share sub-objects and contain cycles.   *)
(* A reflect.Value is [v, addr]: the value and its UnsafeAddr, or NoAddr   *)
(* when the value is not addressable.                                      *)
(***************************************************************************)
EXTENDS Integers, Sequences, FiniteSets, TLC

VARIABLES pc, in, stack, out, reports, aVisited, bVisited, picks, steps

vars == <<pc, in, stack, out, reports, aVisited, bVisited, picks, steps>>

(***************************************************************************)
(* Bounds of the model.                                                    *)
(***************************************************************************)
\* deepest recursion the model follows; a run that needs more never returns
MaxDepth == 9

(***************************************************************************)
(* Strings and the part of package fmt the differ uses.                    *)
(***************************************************************************)
Ch(s, i) == SubSeq(s, i, i)

\* Body of v: v is a local variable of the code, named by Body's parameter
Let(v, Body(_)) == Body(v)

\* the digits of fmt (ldigits, udigits): the 17th is the x of the 0x prefix
HexDigits == "0123456789abcdefx"
UpperHexDigits == "0123456789ABCDEFX"

\* strconv-style digits of n >= 0 in a base up to 16
RECURSIVE ToBase(_, _, _)
ToBase(n, base, digits) ==
  IF n < base THEN Ch(digits, n + 1)
  ELSE ToBase(n \div base, base, digits) \o Ch(digits, (n % base) + 1)

Hex(n) == ToBase(n, 16, HexDigits)

\* the string c repeated n times (nothing when n <= 0)
RECURSIVE Rep(_, _)
Rep(c, n) == IF n <= 0 THEN "" ELSE c \o Rep(c, n - 1)

\* n in hexadecimal on at least w digits
HexW(n, w, digits) == Rep("0", w - Len(ToBase(n, 16, digits))) \o ToBase(n, 16, digits)

\* the 16 hexadecimal digits of uint64(x) for x < 0: those of 2^64 - 1
\* minus those of -x - 1, digit by digit
RECURSIVE Complement(_, _, _)
Complement(ds, i, digits) ==
  IF i > Len(ds) THEN ""
  ELSE Ch(digits, 16 - (CHOOSE d \in 0..15 : Ch(HexDigits, d + 1) = Ch(ds, i)))
       \o Complement(ds, i + 1, digits)
HexNeg(n, digits) == Complement(HexW(0 - n - 1, 16, HexDigits), 1, digits)

(***************************************************************************)
(* Text.  A Go string is modelled as the sequence of its runes (the        *)
(* strings of valid UTF-8).  A rune is one character of the text when it   *)
(* is in CodePoints; any other rune (the control characters but tab,       *)
(* newline and return; the backquote; DEL and everything above) is the     *)
(* unit  Esc hex ;  with Esc the form feed, which therefore never stands   *)
(* for itself.  Every text is the text of exactly one rune sequence.       *)
(***************************************************************************)
\* printable ASCII 32..95 and 97..126, indexed from the first code point
Ascii == " !\"#$%&'()*+,-./0123456789:;<=>?@ABCDEFGHIJKLMNOPQRSTUVWXYZ[\\]^_"

Esc == "\f"
Unrep(n) == Esc \o Hex(n) \o ";"

\* the text of the rune of a code point (utf8.AppendRune of a valid rune)
Chr(n) ==
  CASE n >= 32 /\ n <= 95 -> Ch(Ascii, n - 31)
    [] n >= 97 /\ n <= 126 -> Ch("abcdefghijklmnopqrstuvwxyz{|}~", n - 96)
    [] n = 9 -> "\t" [] n = 10 -> "\n" [] n = 13 -> "\r"
    [] OTHER -> Unrep(n)

CodePoints == ((32..126) \ {96}) \cup {9, 10, 13}

\* the last position of the rune that starts at position i of s
RECURSIVE UnitEnd(_, _)
UnitEnd(s, j) == IF j >= Len(s) \/ Ch(s, j) = ";" THEN j ELSE UnitEnd(s, j + 1)
RuneEnd(s, i) == IF Ch(s, i) = Esc THEN UnitEnd(s, i + 1) ELSE i

\* the rune at position i of s, as text (utf8.DecodeRuneInString)
RuneAt(s, i) == SubSeq(s, i, RuneEnd(s, i))

\* the number a text of hexadecimal digits writes
RECURSIVE ParseHex(_, _, _)
ParseHex(s, i, acc) ==
  IF i > Len(s) THEN acc
  ELSE ParseHex(s, i + 1,
                acc * 16 + (CHOOSE d \in 0..15 : Ch(HexDigits, d + 1) = Ch(s, i)))

\* the code point of a rune given as text
Ord(c) ==
  IF Ch(c, 1) = Esc THEN ParseHex(SubSeq(c, 2, Len(c) - 1), 1, 0)
  ELSE CHOOSE n \in CodePoints : Chr(n) = c

\* utf8.RuneCountInString
RECURSIVE RuneCountFrom(_, _)
RuneCountFrom(s, i) ==
  IF i > Len(s) THEN 0 ELSE 1 + RuneCountFrom(s, RuneEnd(s, i) + 1)
RuneCount(s) == RuneCountFrom(s, 1)

\* the position after the first n runes of s from position i
RECURSIVE SkipRunes(_, _, _)
SkipRunes(s, i, n) ==
  IF n <= 0 \/ i > Len(s) THEN i ELSE SkipRunes(s, RuneEnd(s, i) + 1, n - 1)

\* the UTF-8 encoding of a code point (utf8.EncodeRune)
Utf8(n) ==
  CASE n < 128 -> <<n>>
    [] n >= 128 /\ n < 2048 -> <<192 + (n \div 64), 128 + (n % 64)>>
    [] n >= 2048 /\ n < 65536 ->
         <<224 + (n \div 4096), 128 + ((n \div 64) % 64), 128 + (n % 64)>>
    [] OTHER -> <<240 + (n \div 262144), 128 + ((n \div 4096) % 64),
                  128 + ((n \div 64) % 64), 128 + (n % 64)>>

\* the bytes of a string, from position i of its text
RECURSIVE BytesFrom(_, _)
BytesFrom(s, i) ==
  IF i > Len(s) THEN <<>>
  ELSE Utf8(Ord(RuneAt(s, i))) \o BytesFrom(s, RuneEnd(s, i) + 1)
Bytes(s) == BytesFrom(s, 1)

IsDigit(c) == c \in {"0", "1", "2", "3", "4", "5", "6", "7", "8", "9"}
DigitVal(c) == Ord(c) - 48

\* utf8.MaxRune, utf8.RuneError and the surrogate range
MaxRune == 1114111
RuneError == 65533
ValidRune(n) == n >= 0 /\ n <= MaxRune /\ ~(n >= 55296 /\ n <= 57343)

\* rune(c) of the uint64 c an integer operand converts to, as fmtC and fmtQc
\* take it: the replacement character beyond utf8.MaxRune, and for what is
\* no rune
ToRune(n) == IF ValidRune(n) THEN n ELSE RuneError

\* The ranges lo, hi of the printable code points above ASCII: the letters,
\* marks, numbers, punctuation and symbols of Unicode 15.0.0, which the
\* tables of strconv.IsPrint list.
PrintRanges ==
  <<161, 172, 174, 887, 890, 895, 900, 906, 908, 908,
     910, 929, 931, 1327, 1329, 1366, 1369, 1418, 1421, 1423,
     1425, 1479, 1488, 1514, 1519, 1524, 1542, 1563, 1565, 1756,
     1758, 1805, 1808, 1866, 1869, 1969, 1984, 2042, 2045, 2093,
     2096, 2110, 2112, 2139, 2142, 2142, 2144, 2154, 2160, 2190,
     2200, 2273, 2275, 2435, 2437, 2444, 2447, 2448, 2451, 2472,
     2474, 2480, 2482, 2482, 2486, 2489, 2492, 2500, 2503, 2504,
     2507, 2510, 2519, 2519, 2524, 2525, 2527, 2531, 2534, 2558,
     2561, 2563, 2565, 2570, 2575, 2576, 2579, 2600, 2602, 2608,
     2610, 2611, 2613, 2614, 2616, 2617, 2620, 2620, 2622, 2626,
     2631, 2632, 2635, 2637, 2641, 2641, 2649, 2652, 2654, 2654,
     2662, 2678, 2689, 2691, 2693, 2701, 2703, 2705, 2707, 2728,
     2730, 2736, 2738, 2739, 2741, 2745, 2748, 2757, 2759, 2761,
     2763, 2765, 2768, 2768, 2784, 2787, 2790, 2801, 2809, 2815,
     2817, 2819, 2821, 2828, 2831, 2832, 2835, 2856, 2858, 2864,
     2866, 2867, 2869, 2873, 2876, 2884, 2887, 2888, 2891, 2893,
     2901, 2903, 2908, 2909, 2911, 2915, 2918, 2935, 2946, 2947,
     2949, 2954, 2958, 2960, 2962, 2965, 2969, 2970, 2972, 2972,
     2974, 2975, 2979, 2980, 2984, 2986, 2990, 3001, 3006, 3010,
     3014, 3016, 3018, 3021, 3024, 3024, 3031, 3031, 3046, 3066,
     3072, 3084, 3086, 3088, 3090, 3112, 3114, 3129, 3132, 3140,
     3142, 3144, 3146, 3149, 3157, 3158, 3160, 3162, 3165, 3165,
     3168, 3171, 3174, 3183, 3191, 3212, 3214, 3216, 3218, 3240,
     3242, 3251, 3253, 3257, 3260, 3268, 3270, 3272, 3274, 3277,
     3285, 3286, 3293, 3294, 3296, 3299, 3302, 3311, 3313, 3315,
     3328, 3340, 3342, 3344, 3346, 3396, 3398, 3400, 3402, 3407,
     3412, 3427, 3430, 3455, 3457, 3459, 3461, 3478, 3482, 3505,
     3507, 3515, 3517, 3517, 3520, 3526, 3530, 3530, 3535, 3540,
     3542, 3542, 3544, 3551, 3558, 3567, 3570, 3572, 3585, 3642,
     3647, 3675, 3713, 3714, 3716, 3716, 3718, 3722, 3724, 3747,
     3749, 3749, 3751, 3773, 3776, 3780, 3782, 3782, 3784, 3790,
     3792, 3801, 3804, 3807, 3840, 3911, 3913, 3948, 3953, 3991,
     3993, 4028, 4030, 4044, 4046, 4058, 4096, 4293, 4295, 4295,
     4301, 4301, 4304, 4680, 4682, 4685, 4688, 4694, 4696, 4696,
     4698, 4701, 4704, 4744, 4746, 4749, 4752, 4784, 4786, 4789,
     4792, 4798, 4800, 4800, 4802, 4805, 4808, 4822, 4824, 4880,
     4882, 4885, 4888, 4954, 4957, 4988, 4992, 5017, 5024, 5109,
     5112, 5117, 5120, 5759, 5761, 5788, 5792, 5880, 5888, 5909,
     5919, 5942, 5952, 5971, 5984, 5996, 5998, 6000, 6002, 6003,
     6016, 6109, 6112, 6121, 6128, 6137, 6144, 6157, 6159, 6169,
     6176, 6264, 6272, 6314, 6320, 6389, 6400, 6430, 6432, 6443,
     6448, 6459, 6464, 6464, 6468, 6509, 6512, 6516, 6528, 6571,
     6576, 6601, 6608, 6618, 6622, 6683, 6686, 6750, 6752, 6780,
     6783, 6793, 6800, 6809, 6816, 6829, 6832, 6862, 6912, 6988,
     6992, 7038, 7040, 7155, 7164, 7223, 7227, 7241, 7245, 7304,
     7312, 7354, 7357, 7367, 7376, 7418, 7424, 7957, 7960, 7965,
     7968, 8005, 8008, 8013, 8016, 8023, 8025, 8025, 8027, 8027,
     8029, 8029, 8031, 8061, 8064, 8116, 8118, 8132, 8134, 8147,
     8150, 8155, 8157, 8175, 8178, 8180, 8182, 8190, 8208, 8231,
     8240, 8286, 8304, 8305, 8308, 8334, 8336, 8348, 8352, 8384,
     8400, 8432, 8448, 8587, 8592, 9254, 9280, 9290, 9312, 11123,
     11126, 11157, 11159, 11507, 11513, 11557, 11559, 11559, 11565, 11565,
     11568, 11623, 11631, 11632, 11647, 11670, 11680, 11686, 11688, 11694,
     11696, 11702, 11704, 11710, 11712, 11718, 11720, 11726, 11728, 11734,
     11736, 11742, 11744, 11869, 11904, 11929, 11931, 12019, 12032, 12245,
     12272, 12283, 12289, 12351, 12353, 12438, 12441, 12543, 12549, 12591,
     12593, 12686, 12688, 12771, 12784, 12830, 12832, 42124, 42128, 42182,
     42192, 42539, 42560, 42743, 42752, 42954, 42960, 42961, 42963, 42963,
     42965, 42969, 42994, 43052, 43056, 43065, 43072, 43127, 43136, 43205,
     43214, 43225, 43232, 43347, 43359, 43388, 43392, 43469, 43471, 43481,
     43486, 43518, 43520, 43574, 43584, 43597, 43600, 43609, 43612, 43714,
     43739, 43766, 43777, 43782, 43785, 43790, 43793, 43798, 43808, 43814,
     43816, 43822, 43824, 43883, 43888, 44013, 44016, 44025, 44032, 55203,
     55216, 55238, 55243, 55291, 63744, 64109, 64112, 64217, 64256, 64262,
     64275, 64279, 64285, 64310, 64312, 64316, 64318, 64318, 64320, 64321,
     64323, 64324, 64326, 64450, 64467, 64911, 64914, 64967, 64975, 64975,
     65008, 65049, 65056, 65106, 65108, 65126, 65128, 65131, 65136, 65140,
     65142, 65276, 65281, 65470, 65474, 65479, 65482, 65487, 65490, 65495,
     65498, 65500, 65504, 65510, 65512, 65518, 65532, 65533, 65536, 65547,
     65549, 65574, 65576, 65594, 65596, 65597, 65599, 65613, 65616, 65629,
     65664, 65786, 65792, 65794, 65799, 65843, 65847, 65934, 65936, 65948,
     65952, 65952, 66000, 66045, 66176, 66204, 66208, 66256, 66272, 66299,
     66304, 66339, 66349, 66378, 66384, 66426, 66432, 66461, 66463, 66499,
     66504, 66517, 66560, 66717, 66720, 66729, 66736, 66771, 66776, 66811,
     66816, 66855, 66864, 66915, 66927, 66938, 66940, 66954, 66956, 66962,
     66964, 66965, 66967, 66977, 66979, 66993, 66995, 67001, 67003, 67004,
     67072, 67382, 67392, 67413, 67424, 67431, 67456, 67461, 67463, 67504,
     67506, 67514, 67584, 67589, 67592, 67592, 67594, 67637, 67639, 67640,
     67644, 67644, 67647, 67669, 67671, 67742, 67751, 67759, 67808, 67826,
     67828, 67829, 67835, 67867, 67871, 67897, 67903, 67903, 67968, 68023,
     68028, 68047, 68050, 68099, 68101, 68102, 68108, 68115, 68117, 68119,
     68121, 68149, 68152, 68154, 68159, 68168, 68176, 68184, 68192, 68255,
     68288, 68326, 68331, 68342, 68352, 68405, 68409, 68437, 68440, 68466,
     68472, 68497, 68505, 68508, 68521, 68527, 68608, 68680, 68736, 68786,
     68800, 68850, 68858, 68903, 68912, 68921, 69216, 69246, 69248, 69289,
     69291, 69293, 69296, 69297, 69373, 69415, 69424, 69465, 69488, 69513,
     69552, 69579, 69600, 69622, 69632, 69709, 69714, 69749, 69759, 69820,
     69822, 69826, 69840, 69864, 69872, 69881, 69888, 69940, 69942, 69959,
     69968, 70006, 70016, 70111, 70113, 70132, 70144, 70161, 70163, 70209,
     70272, 70278, 70280, 70280, 70282, 70285, 70287, 70301, 70303, 70313,
     70320, 70378, 70384, 70393, 70400, 70403, 70405, 70412, 70415, 70416,
     70419, 70440, 70442, 70448, 70450, 70451, 70453, 70457, 70459, 70468,
     70471, 70472, 70475, 70477, 70480, 70480, 70487, 70487, 70493, 70499,
     70502, 70508, 70512, 70516, 70656, 70747, 70749, 70753, 70784, 70855,
     70864, 70873, 71040, 71093, 71096, 71133, 71168, 71236, 71248, 71257,
     71264, 71276, 71296, 71353, 71360, 71369, 71424, 71450, 71453, 71467,
     71472, 71494, 71680, 71739, 71840, 71922, 71935, 71942, 71945, 71945,
     71948, 71955, 71957, 71958, 71960, 71989, 71991, 71992, 71995, 72006,
     72016, 72025, 72096, 72103, 72106, 72151, 72154, 72164, 72192, 72263,
     72272, 72354, 72368, 72440, 72448, 72457, 72704, 72712, 72714, 72758,
     72760, 72773, 72784, 72812, 72816, 72847, 72850, 72871, 72873, 72886,
     72960, 72966, 72968, 72969, 72971, 73014, 73018, 73018, 73020, 73021,
     73023, 73031, 73040, 73049, 73056, 73061, 73063, 73064, 73066, 73102,
     73104, 73105, 73107, 73112, 73120, 73129, 73440, 73464, 73472, 73488,
     73490, 73530, 73534, 73561, 73648, 73648, 73664, 73713, 73727, 74649,
     74752, 74862, 74864, 74868, 74880, 75075, 77712, 77810, 77824, 78895,
     78912, 78933, 82944, 83526, 92160, 92728, 92736, 92766, 92768, 92777,
     92782, 92862, 92864, 92873, 92880, 92909, 92912, 92917, 92928, 92997,
     93008, 93017, 93019, 93025, 93027, 93047, 93053, 93071, 93760, 93850,
     93952, 94026, 94031, 94087, 94095, 94111, 94176, 94180, 94192, 94193,
     94208, 100343, 100352, 101589, 101632, 101640, 110576, 110579, 110581, 110587,
     110589, 110590, 110592, 110882, 110898, 110898, 110928, 110930, 110933, 110933,
     110948, 110951, 110960, 111355, 113664, 113770, 113776, 113788, 113792, 113800,
     113808, 113817, 113820, 113823, 118528, 118573, 118576, 118598, 118608, 118723,
     118784, 119029, 119040, 119078, 119081, 119154, 119163, 119274, 119296, 119365,
     119488, 119507, 119520, 119539, 119552, 119638, 119648, 119672, 119808, 119892,
     119894, 119964, 119966, 119967, 119970, 119970, 119973, 119974, 119977, 119980,
     119982, 119993, 119995, 119995, 119997, 120003, 120005, 120069, 120071, 120074,
     120077, 120084, 120086, 120092, 120094, 120121, 120123, 120126, 120128, 120132,
     120134, 120134, 120138, 120144, 120146, 120485, 120488, 120779, 120782, 121483,
     121499, 121503, 121505, 121519, 122624, 122654, 122661, 122666, 122880, 122886,
     122888, 122904, 122907, 122913, 122915, 122916, 122918, 122922, 122928, 122989,
     123023, 123023, 123136, 123180, 123184, 123197, 123200, 123209, 123214, 123215,
     123536, 123566, 123584, 123641, 123647, 123647, 124112, 124153, 124896, 124902,
     124904, 124907, 124909, 124910, 124912, 124926, 124928, 125124, 125127, 125142,
     125184, 125259, 125264, 125273, 125278, 125279, 126065, 126132, 126209, 126269,
     126464, 126467, 126469, 126495, 126497, 126498, 126500, 126500, 126503, 126503,
     126505, 126514, 126516, 126519, 126521, 126521, 126523, 126523, 126530, 126530,
     126535, 126535, 126537, 126537, 126539, 126539, 126541, 126543, 126545, 126546,
     126548, 126548, 126551, 126551, 126553, 126553, 126555, 126555, 126557, 126557,
     126559, 126559, 126561, 126562, 126564, 126564, 126567, 126570, 126572, 126578,
     126580, 126583, 126585, 126588, 126590, 126590, 126592, 126601, 126603, 126619,
     126625, 126627, 126629, 126633, 126635, 126651, 126704, 126705, 126976, 127019,
     127024, 127123, 127136, 127150, 127153, 127167, 127169, 127183, 127185, 127221,
     127232, 127405, 127462, 127490, 127504, 127547, 127552, 127560, 127568, 127569,
     127584, 127589, 127744, 128727, 128732, 128748, 128752, 128764, 128768, 128886,
     128891, 128985, 128992, 129003, 129008, 129008, 129024, 129035, 129040, 129095,
     129104, 129113, 129120, 129159, 129168, 129197, 129200, 129201, 129280, 129619,
     129632, 129645, 129648, 129660, 129664, 129672, 129680, 129725, 129727, 129733,
     129742, 129755, 129760, 129768, 129776, 129784, 129792, 129938, 129940, 129994,
     130032, 130041, 131072, 173791, 173824, 177977, 177984, 178205, 178208, 183969,
     183984, 191456, 194560, 195101, 196608, 201546, 201552, 205743, 917760, 917999 >>

\* strconv.IsPrint
IsPrint(n) ==
  IF n < 128 THEN n >= 32 /\ n <= 126
  ELSE \E i \in 1..(Len(PrintRanges) \div 2) :
         PrintRanges[2 * i - 1] <= n /\ n <= PrintRanges[2 * i]

\* strconv.appendEscapedRune: the valid rune n inside the quotes quote, all
\* in ASCII when ascii
EscapedRune(n, quote, ascii) ==
  IF n = quote \/ n = 92 THEN "\\" \o Chr(n)
  ELSE IF IsPrint(n) /\ (~ascii \/ n < 128) THEN Chr(n)
  ELSE CASE n = 7 -> "\\a" [] n = 8 -> "\\b" [] n = 12 -> "\\f"
         [] n = 10 -> "\\n" [] n = 13 -> "\\r" [] n = 9 -> "\\t"
         [] n = 11 -> "\\v"
         [] (n < 32 /\ n \notin 7..13) \/ n = 127 -> "\\x" \o HexW(n, 2, HexDigits)
         [] n >= 128 /\ n < 65536 -> "\\u" \o HexW(n, 4, HexDigits)
         [] OTHER -> "\\U" \o HexW(n, 8, HexDigits)

\* strconv.Quote, and QuoteToASCII when ascii: rune by rune
RECURSIVE EscapeFrom(_, _, _)
EscapeFrom(s, i, ascii) ==
  IF i > Len(s) THEN ""
  ELSE (CASE Ch(s, i) \in {"\"", "\\"} -> "\\" \o Ch(s, i)
          [] Ch(s, i) = "\t" -> "\\t" [] Ch(s, i) = "\n" -> "\\n"
          [] Ch(s, i) = "\r" -> "\\r"
          [] Ch(s, i) = Esc -> EscapedRune(Ord(RuneAt(s, i)), 34, ascii)
          [] OTHER -> Ch(s, i))
       \o EscapeFrom(s, RuneEnd(s, i) + 1, ascii)

Quote(s) == "\"" \o EscapeFrom(s, 1, FALSE) \o "\""
QuoteToASCII(s) == "\"" \o EscapeFrom(s, 1, TRUE) \o "\""

\* strconv.CanBackquote: no control character but the tab, no backquote, no
\* DEL and no byte order mark
RECURSIVE CanBackquoteFrom(_, _)
CanBackquoteFrom(s, i) ==
  IF i > Len(s) THEN TRUE
  ELSE /\ Ch(s, i) \notin {"\n", "\r"}
       /\ Ch(s, i) = Esc =>
            (Ord(RuneAt(s, i)) >= 128 /\ Ord(RuneAt(s, i)) # 65279)
       /\ CanBackquoteFrom(s, RuneEnd(s, i) + 1)
CanBackquote(s) == CanBackquoteFrom(s, 1)

\* strconv.QuoteRune, and QuoteRuneToASCII when ascii (%q, %+q of an integer)
QuoteRune(n, ascii) == "'" \o EscapedRune(ToRune(n), 39, ascii) \o "'"

\* Arguments of a Printf call: [t, x] with t the dynamic type of the argument.
IntArg(n) == [t |-> "int", x |-> n]
Int64Arg(n) == [t |-> "int64", x |-> n]
StrArg(s) == [t |-> "string", x |-> s]
PtrArg(n) == [t |-> "uintptr", x |-> n]
TypeArg(t) == [t |-> "*reflect.rtype", x |-> t]

\* fmt.fmtFlags with wid and prec; -1 stands for widPresent, precPresent false
NoFlags ==
  [sharp |-> FALSE, zero |-> FALSE, plus |-> FALSE, minus |-> FALSE,
   space |-> FALSE, sharpV |-> FALSE, plusV |-> FALSE, wid |-> 0 - 1, prec |-> 0 - 1]

\* fmt.(*fmt).writePadding
Padding(fl, n) == Rep(IF fl.zero /\ ~fl.minus THEN "0" ELSE " ", n)

\* fmt.(*fmt).pad and padString: the width counts runes
Pad(fl, s) ==
  IF fl.wid <= 0 THEN s
  ELSE IF ~fl.minus THEN Padding(fl, fl.wid - RuneCount(s)) \o s
  ELSE s \o Padding(fl, fl.wid - RuneCount(s))

\* fmt.(*fmt).truncateString: the precision counts runes
Truncate(fl, s) ==
  IF fl.prec >= 0 THEN SubSeq(s, 1, SkipRunes(s, 1, fl.prec) - 1) ELSE s


\* fmt.(*fmt).fmtInteger: u in base 2, 8, 10 or 16
FmtInteger(fl, u, base, isSigned, verb, digits) ==
  LET negative == isSigned /\ u < 0
      a == IF negative THEN 0 - u ELSE u
      signed == negative \/ fl.plus \/ fl.space
      prec == IF fl.prec >= 0 THEN fl.prec
              ELSE IF fl.zero /\ ~fl.minus /\ fl.wid >= 0
                   THEN fl.wid - (IF signed THEN 1 ELSE 0)
              ELSE 0
      ds == ToBase(a, base, digits)
      num == Rep("0", prec - Len(ds)) \o ds
      pre == IF ~fl.sharp THEN ""
             ELSE CASE base = 2 -> "0b"
                    [] base = 8 -> IF Ch(num, 1) # "0" THEN "0" ELSE ""
                    [] base = 16 -> "0" \o Ch(digits, 17)
                    [] OTHER -> ""
      o == IF verb = "O" THEN "0o" ELSE ""
      sign == IF negative THEN "-" ELSE IF fl.plus THEN "+"
              ELSE IF fl.space THEN " " ELSE ""
      noZero == [fl EXCEPT !.zero = FALSE]
  IN IF fl.prec = 0 /\ a = 0 THEN Padding(noZero, fl.wid)
     ELSE Pad(noZero, sign \o o \o pre \o num)

\* fmt.(*fmt).fmtC and fmtQc
FmtC(fl, u) == Pad(fl, Chr(ToRune(u)))
FmtQc(fl, u) == Pad(fl, QuoteRune(u, fl.plus))

\* fmt.(*fmt).fmtUnicode: U+0041, and U+0041 'A' under '#'; a negative
\* operand is the uint64 it converts to
FmtUnicode(fl, u) ==
  LET prec == IF fl.prec > 4 THEN fl.prec ELSE 4
      ds == IF u < 0 THEN HexNeg(u, UpperHexDigits) ELSE ToBase(u, 16, UpperHexDigits)
      ch == IF fl.sharp /\ u >= 0 /\ u <= MaxRune /\ IsPrint(u)
            THEN " '" \o Chr(u) \o "'" ELSE ""
  IN Pad([fl EXCEPT !.zero = FALSE], "U+" \o Rep("0", prec - Len(ds)) \o ds \o ch)

\* fmt.(*fmt).fmtS and fmtQ
FmtS(fl, s) == Pad(fl, Truncate(fl, s))
FmtQ(fl, s) ==
  LET t == Truncate(fl, s) IN
  IF fl.sharp /\ CanBackquote(t) THEN Pad(fl, Chr(96) \o t \o Chr(96))
  ELSE Pad(fl, IF fl.plus THEN QuoteToASCII(t) ELSE Quote(t))

\* the bytes b from the i-th to the n-th in hexadecimal (fmtSbx's loop)
RECURSIVE HexBytes(_, _, _, _, _)
HexBytes(fl, b, i, n, digits) ==
  IF i > n THEN ""
  ELSE (IF fl.space /\ i > 1
        THEN " " \o (IF fl.sharp THEN "0" \o Ch(digits, 17) ELSE "")
        ELSE "")
       \o Ch(digits, (b[i] \div 16) + 1) \o Ch(digits, (b[i] % 16) + 1)
       \o HexBytes(fl, b, i + 1, n, digits)

\* fmt.(*fmt).fmtSbx on a string: its bytes, as many as the precision allows
FmtSx(fl, s, digits) ==
  LET b == Bytes(s)
      length == IF fl.prec >= 0 /\ fl.prec < Len(b) THEN fl.prec ELSE Len(b)
      width == 2 * length
               + (IF fl.space THEN (IF fl.sharp THEN 2 * length ELSE 0) + length - 1
                  ELSE IF fl.sharp THEN 2 ELSE 0)
      body == (IF fl.sharp THEN "0" \o Ch(digits, 17) ELSE "")
              \o HexBytes(fl, b, 1, length, digits)
  IN IF length = 0 THEN Padding(fl, fl.wid)
     ELSE IF fl.wid > width /\ ~fl.minus THEN Padding(fl, fl.wid - width) \o body
     ELSE IF fl.wid > width THEN body \o Padding(fl, fl.wid - width)
     ELSE body

\* %!verb(type=value): fmt.(*pp).badVerb, value being the operand under %v
BadVerb(verb, typ, value) == "%!" \o verb \o "(" \o typ \o "=" \o value \o ")"

\* fmt.(*pp).fmtInteger: an integer operand under a verb.  A verb that is
\* not an integer verb prints %!verb(type=value) with the value under %v,
\* and %v prints an unsigned integer as 0x... when sharpV is set.
FmtIntegerVerb(fl, verb, t, x) ==
  LET isSigned == t # "uintptr"
      asV == verb \notin {"d", "b", "o", "O", "x", "X", "c", "q", "U"}
      hex0x == asV /\ fl.sharpV /\ ~isSigned
      base == CASE verb = "b" -> 2
                [] verb \in {"o", "O"} -> 8
                [] verb \in {"x", "X"} \/ hex0x -> 16
                [] OTHER -> 10
  IN CASE verb = "c" -> FmtC(fl, x)
       [] verb = "q" -> FmtQc(fl, x)
       [] verb = "U" -> FmtUnicode(fl, x)
       [] OTHER ->
            Let(FmtInteger(IF hex0x THEN [fl EXCEPT !.sharp = TRUE] ELSE fl, x, base,
                           isSigned, IF verb = "O" THEN verb ELSE "v",
                           IF verb = "X" THEN UpperHexDigits ELSE HexDigits),
                LAMBDA num : IF verb \in {"v", "d", "b", "o", "O", "x", "X"} THEN num
                             ELSE BadVerb(verb, t, num))

\* fmt.(*pp).fmtString: a string operand under a verb; a verb that is not
\* a string verb prints %!verb(string=value) with the value under %v, and
\* %v quotes the string when sharpV is set
FmtStringVerb(fl, verb, x) ==
  LET quoted == verb = "q" \/ (verb \notin {"s", "x", "X"} /\ fl.sharpV) IN
  CASE verb = "x" -> FmtSx(fl, x, HexDigits)
    [] verb = "X" -> FmtSx(fl, x, UpperHexDigits)
    [] OTHER ->
         Let(IF quoted THEN FmtQ(fl, x) ELSE FmtS(fl, x),
             LAMBDA str : IF verb \in {"v", "s", "q"} THEN str
                          ELSE BadVerb(verb, "string", str))

\* One operand of a basic type printed under one verb other than %T and %p
\* (the cases of fmt.(*pp).printArg and printValue for integers and strings)
FormatBasic(verb, fl, t, x) ==
  IF t = "string" THEN FmtStringVerb(fl, verb, x) ELSE FmtIntegerVerb(fl, verb, t, x)

(***************************************************************************)
(* Go values.  [k, t, x]: reflect.Kind, Type.String() and the payload:     *)
(*   int, string   the value            func     the code pointer          *)
(*   ptr           the address pointed to, 0 for nil                       *)
(*   struct, array the sequence of field / element values, stored in place *)
(*   slice         <<address of the backing array (0 for nil), length>>    *)
(*   map           the map's id in MapTab, 0 for a nil map                 *)
(*   interface     the value held; Invalid for a nil interface             *)
(***************************************************************************)
Invalid == [k |-> "invalid", t |-> "", x |-> 0]
IntV(n) == [k |-> "int", t |-> "int", x |-> n]
StrV(s) == [k |-> "string", t |-> "string", x |-> s]
PtrV(a) == [k |-> "ptr", t |-> "*main.T", x |-> a]
NodeV(v, p) == [k |-> "struct", t |-> "main.T", x |-> <<IntV(v), PtrV(p)>>]
PairV(m, n) == [k |-> "array", t |-> "[2]int", x |-> <<IntV(m), IntV(n)>>]
SliceV(t, arr, n) == [k |-> "slice", t |-> t, x |-> <<arr, n>>]
MapV(t, id) == [k |-> "map", t |-> t, x |-> id]
IfaceV(held) == [k |-> "interface", t |-> "interface {}", x |-> held]
FuncV(p) == [k |-> "func", t |-> "func()", x |-> p]

\* type main.T struct { V int; P *T }
FieldNames(t) == CASE t = "main.T" -> <<"V", "P">>
FieldTypes(t) == CASE t = "main.T" -> <<"int", "*main.T">>
ElemType(t) == CASE t = "[]*main.T" -> "*main.T"
                 [] t = "[]interface {}" -> "interface {}"
                 [] t = "[2]int" -> "int"

\* unsafe.Sizeof in machine words
RECURSIVE SizeOf(_)
RECURSIVE SumSizes(_, _)
SumSizes(ts, n) == IF n = 0 THEN 0 ELSE SumSizes(ts, n - 1) + SizeOf(ts[n])
SizeOf(t) == CASE t \in {"int", "*main.T", "func()", "map[string]int",
                         "map[string]interface {}"} -> 1
               [] t \in {"string", "interface {}"} -> 2
               [] t \in {"[]*main.T", "[]interface {}"} -> 3
               [] t = "[2]int" -> 2 * SizeOf("int")
               [] t = "main.T" -> SumSizes(FieldTypes(t), Len(FieldTypes(t)))

\* The heap the compared values live in: address -> value stored there.
\*   16, 32   two one-node rings            80, 96  a two-node ring
\*   48, 64   two nodes with a nil P        112..   backing arrays of slices
\*   176      the element of s = []interface{}{s}, a slice that holds itself
Heap ==
  16 :> NodeV(1, 16) @@ 32 :> NodeV(1, 32) @@ 48 :> NodeV(2, 0) @@ 64 :> NodeV(1, 0)
  @@ 80 :> NodeV(1, 96) @@ 96 :> NodeV(1, 80)
  @@ 112 :> PtrV(16) @@ 113 :> PtrV(64) @@ 114 :> PtrV(16)
  @@ 128 :> PtrV(32) @@ 129 :> PtrV(32) @@ 130 :> PtrV(32)
  @@ 144 :> IfaceV(IntV(1)) @@ 160 :> IfaceV(StrV("x"))
  @@ 176 :> IfaceV(SliceV("[]interface {}", 176, 1))

\* The maps: id -> entries <<key, value>> (a Go map holds each key once).
MapTab ==
  1 :> << <<StrV("a"), IntV(1)>>, <<StrV("b"), IntV(2)>>, <<StrV("%d"), IntV(3)>> >>
  @@ 2 :> << <<StrV("%d"), IntV(5)>>, <<StrV("c"), IntV(3)>>, <<StrV("d"), IntV(4)>> >>
  @@ 3 :> << <<StrV("self"), IfaceV(MapV("map[string]interface {}", 3))>> >>
  @@ 4 :> << <<StrV("self"), IfaceV(IntV(1))>> >>
  @@ 5 :> << <<StrV("a"), IntV(1)>>, <<StrV("b"), IntV(2)>> >>
  @@ 6 :> << >>
  @@ 7 :> << <<StrV("k"), IfaceV(SliceV("[]interface {}", 176, 1))>> >>
  @@ 8 :> << >>

\* The values handed to Diff as a or b (interface{} arguments).
Roots ==
  << Invalid, IntV(1), IntV(2), StrV("x"), StrV("y"),
     PtrV(0), PtrV(16), PtrV(32), PtrV(48), PtrV(80),
     PairV(1, 2), PairV(1, 3),
     SliceV("[]*main.T", 112, 3), SliceV("[]*main.T", 128, 3),
     SliceV("[]*main.T", 128, 2), SliceV("[]*main.T", 0, 0),
     SliceV("[]interface {}", 144, 1), SliceV("[]interface {}", 160, 1),
     SliceV("[]interface {}", 176, 1),
     MapV("map[string]int", 1), MapV("map[string]int", 2),
     MapV("map[string]int", 0),
     MapV("map[string]interface {}", 3), MapV("map[string]interface {}", 4),
     FuncV(500), FuncV(501), MapV("map[string]int", 5),
     SliceV("[]*main.T", 128, 0), MapV("map[string]int", 6),
     MapV("map[string]interface {}", 7), MapV("map[string]interface {}", 8) >>

\* the pairs two interleaved calls are given (indices in Roots)
ParPairs ==
  {<<7, 7>>, <<7, 9>>, <<7, 10>>, <<10, 7>>, <<27, 22>>, <<22, 27>>, <<30, 31>>}

(***************************************************************************)
(* package reflect: a reflect.Value is [v, addr, can]: the value, its      *)
(* UnsafeAddr and CanAddr (addr is 0 when can is FALSE).                   *)
(***************************************************************************)
ValueOf(v) == [v |-> v, addr |-> 0, can |-> FALSE]
IsValid(rv) == rv.v.k # "invalid"
CanAddr(rv) == rv.can
TypeOf(rv) == rv.v.t
Kind(rv) == rv.v.k

\* Value.Elem: the pointee (always addressable) or the value an interface holds
Elem(rv) ==
  IF rv.v.k = "ptr" THEN [v |-> Heap[rv.v.x], addr |-> rv.v.x, can |-> TRUE]
  ELSE ValueOf(rv.v.x)

IsNil(rv) == IF rv.v.k = "interface" THEN rv.v.x.k = "invalid" ELSE rv.v.x = 0

FieldOffset(t, i) == SumSizes(FieldTypes(t), i - 1)

\* Value.Field(i-1): addressable exactly when the struct is
Field(rv, i) ==
  [v |-> rv.v.x[i],
   addr |-> IF rv.can THEN rv.addr + FieldOffset(rv.v.t, i) ELSE 0,
   can |-> rv.can]

NumField(rv) == Len(rv.v.x)

\* Value.Len of an array or slice
LenOf(rv) == IF rv.v.k = "slice" THEN rv.v.x[2] ELSE Len(rv.v.x)

\* Value.Index(i): a slice element is always addressable, an array element
\* exactly when the array is
Index(rv, i) ==
  IF rv.v.k = "slice"
  THEN [v |-> Heap[rv.v.x[1] + i * SizeOf(ElemType(rv.v.t))],
        addr |-> rv.v.x[1] + i * SizeOf(ElemType(rv.v.t)), can |-> TRUE]
  ELSE [v |-> rv.v.x[i + 1],
        addr |-> IF rv.can THEN rv.addr + i * SizeOf(ElemType(rv.v.t)) ELSE 0,
        can |-> rv.can]

Entries(rv) == IF rv.v.x = 0 THEN <<>> ELSE MapTab[rv.v.x]

\* the orders Value.MapKeys may return the keys in: unspecified by the runtime
Perms(n) == {p \in [1..n -> 1..n] : \A i, j \in 1..n : i # j => p[i] # p[j]}
MapKeysOrders(rv) ==
  {[i \in 1..Len(Entries(rv)) |-> ValueOf(Entries(rv)[p[i]][1])] : p \in Perms(Len(Entries(rv)))}

(***************************************************************************)
(* fmt.Sprintf.  The operands are [t, x] records; a reflect.Value operand  *)
(* prints as the value it holds, a formatter operand through its Format    *)
(* method.                                                                 *)
(***************************************************************************)
RVArg(rv) == [t |-> "reflect.Value", x |-> rv]
FmtArg(rv) == [t |-> "pretty.formatter", x |-> rv]

\* the value behind the interfaces of a value (Value.Interface)
RECURSIVE Concrete(_)
Concrete(v) ==
  IF v.k = "interface" /\ v.x.k # "invalid" THEN Concrete(v.x) ELSE v

\* the elements of an array or a slice, in order
Elems(v) == [i \in 1..LenOf(ValueOf(v)) |-> Index(ValueOf(v), i - 1).v]

\* lexical order of byte sequences (the order of Go strings)
RECURSIVE SeqLess(_, _)
SeqLess(a, b) ==
  IF b = <<>> THEN FALSE
  ELSE IF a = <<>> THEN TRUE
  ELSE IF Head(a) # Head(b) THEN Head(a) < Head(b)
  ELSE SeqLess(Tail(a), Tail(b))

\* internal/fmtsort.compare on the keys of the maps: strings and numbers
KeyLess(a, b) ==
  CASE a.k = "string" -> SeqLess(Bytes(a.x), Bytes(b.x))
    [] a.k \in {"int", "ptr"} -> a.x < b.x
    [] OTHER -> FALSE

\* internal/fmtsort.Sort: the entries of a map by key
RECURSIVE InsertEntry(_, _)
InsertEntry(e, es) ==
  IF es = <<>> THEN <<e>>
  ELSE IF KeyLess(e[1], Head(es)[1]) THEN <<e>> \o es
  ELSE <<Head(es)>> \o InsertEntry(e, Tail(es))
RECURSIVE SortEntries(_)
SortEntries(es) ==
  IF es = <<>> THEN <<>> ELSE InsertEntry(Head(es), SortEntries(Tail(es)))

\* the kinds printValue prints behind a pointer at the top level
Composite == {"array", "slice", "struct", "map"}

\* The walk of printValue does not end: it follows the elements of slices,
\* arrays, structs, maps and interfaces, and a pointer at the top level; a
\* pointer below the top level is printed as an address, or, under a verb
\* that is none of fmtPointer's (v, p, b, o, d, x, X), from the top again
\* under %v.  A value that
\* holds itself that way is walked until the stack of the goroutine is
\* exhausted.  fuel bounds the nesting of the values whose walk ends.
RECURSIVE Overflows(_, _, _, _)
Overflows(verb, v, top, fuel) ==
  IF fuel = 0 THEN TRUE
  ELSE CASE v.k = "ptr" ->
              /\ v.x # 0 /\ Heap[v.x].k \in Composite
              /\ top \/ verb \notin {"v", "p", "b", "o", "d", "x", "X"}
              /\ Overflows(IF top THEN verb ELSE "v", Heap[v.x], FALSE, fuel - 1)
         [] v.k = "interface" ->
              v.x.k # "invalid" /\ Overflows(verb, v.x, FALSE, fuel - 1)
         [] v.k = "struct" ->
              \E i \in 1..Len(v.x) : Overflows(verb, v.x[i], FALSE, fuel - 1)
         [] v.k \in {"array", "slice"} ->
              \E i \in 1..Len(Elems(v)) : Overflows(verb, Elems(v)[i], FALSE, fuel - 1)
         [] v.k = "map" ->
              \E i \in 1..Len(Entries(ValueOf(v))) :
                 \/ Overflows(verb, Entries(ValueOf(v))[i][1], FALSE, fuel - 1)
                 \/ Overflows(verb, Entries(ValueOf(v))[i][2], FALSE, fuel - 1)
         [] OTHER -> FALSE

\* nesting no value of the model reaches unless it holds itself
PrintFuel == 12

\* The call does not return: the stack of the goroutine is exhausted and the
\* runtime ends the program (fatal error: stack overflow).  Fatal is no
\* text and is part of none: an operator whose value is Fatal stands for a
\* call that never returns, and the step that makes the call ends the
\* program (StackOverflow).
Fatal == [fatal |-> "stack overflow"]

\* fmt.(*pp).fmt0x64
Fmt0x64(fl, u, leading0x) ==
  FmtInteger([fl EXCEPT !.sharp = leading0x], u, 16, FALSE, "v", HexDigits)

\* fmt.(*pp).printValue at nesting depth, and fmtPointer for the pointers
\* and functions (their addresses are those of Heap and of the code)
RECURSIVE PrintValue(_, _, _, _)
RECURSIVE PrintSeq(_, _, _, _, _, _)
RECURSIVE PrintEntries(_, _, _, _, _)
RECURSIVE PrintFields(_, _, _, _, _)

\* the elements vs from the i-th on, with sep between them
PrintSeq(verb, fl, vs, i, depth, sep) ==
  IF i > Len(vs) THEN ""
  ELSE (IF i > 1 THEN sep ELSE "") \o PrintValue(verb, fl, vs[i], depth)
       \o PrintSeq(verb, fl, vs, i + 1, depth, sep)

\* the sorted entries es of a map from the i-th on: key:value
PrintEntries(verb, fl, es, i, depth) ==
  IF i > Len(es) THEN ""
  ELSE (IF i > 1 THEN (IF fl.sharpV THEN ", " ELSE " ") ELSE "")
       \o PrintValue(verb, fl, es[i][1], depth) \o ":"
       \o PrintValue(verb, fl, es[i][2], depth)
       \o PrintEntries(verb, fl, es, i + 1, depth)

\* the fields of the struct v from the i-th on; getField prints the value
\* an interface field holds
PrintFields(verb, fl, v, i, depth) ==
  IF i > Len(v.x) THEN ""
  ELSE (IF i > 1 THEN (IF fl.sharpV THEN ", " ELSE " ") ELSE "")
       \o (IF fl.plusV \/ fl.sharpV THEN FieldNames(v.t)[i] \o ":" ELSE "")
       \o PrintValue(verb, fl,
                     IF v.x[i].k = "interface" /\ v.x[i].x.k # "invalid"
                     THEN v.x[i].x ELSE v.x[i], depth)
       \o PrintFields(verb, fl, v, i + 1, depth)

FmtPointer(verb, fl, v) ==
  CASE verb = "v" /\ fl.sharpV ->
         "(" \o v.t \o ")(" \o (IF v.x = 0 THEN "nil" ELSE Fmt0x64(fl, v.x, TRUE)) \o ")"
    [] verb = "v" /\ ~fl.sharpV ->
         IF v.x = 0 THEN Pad(fl, "<nil>") ELSE Fmt0x64(fl, v.x, ~fl.sharp)
    [] verb = "p" -> Fmt0x64(fl, v.x, ~fl.sharp)
    [] verb \in {"b", "o", "d", "x", "X"} -> FmtIntegerVerb(fl, verb, "uintptr", v.x)
    [] OTHER -> BadVerb(verb, v.t, PrintValue("v", fl, v, 0))

PrintValue(verb, fl, v, depth) ==
  CASE v.k = "invalid" ->
         IF depth = 0 THEN "<invalid reflect.Value>"
         ELSE IF verb = "v" THEN "<nil>" ELSE "%!" \o verb \o "(<nil>)"
    [] v.k \in {"int", "string"} -> FormatBasic(verb, fl, v.t, v.x)
    [] v.k = "interface" ->
         IF v.x.k = "invalid" THEN "<nil>" ELSE PrintValue(verb, fl, v.x, depth + 1)
    [] v.k = "map" ->
         IF fl.sharpV
         THEN v.t \o (IF v.x = 0 THEN "(nil)"
                      ELSE "{" \o PrintEntries(verb, fl, SortEntries(Entries(ValueOf(v))),
                                               1, depth + 1) \o "}")
         ELSE "map[" \o PrintEntries(verb, fl, SortEntries(Entries(ValueOf(v))),
                                     1, depth + 1) \o "]"
    [] v.k = "struct" ->
         (IF fl.sharpV THEN v.t ELSE "") \o "{"
         \o PrintFields(verb, fl, v, 1, depth + 1) \o "}"
    [] v.k \in {"array", "slice"} ->
         IF fl.sharpV
         THEN v.t \o (IF v.k = "slice" /\ v.x[1] = 0 THEN "(nil)"
                      ELSE "{" \o PrintSeq(verb, fl, Elems(v), 1, depth + 1, ", ") \o "}")
         ELSE "[" \o PrintSeq(verb, fl, Elems(v), 1, depth + 1, " ") \o "]"
    [] v.k = "ptr" /\ depth = 0 /\ v.x # 0 /\ Heap[v.x].k \in Composite ->
         "&" \o PrintValue(verb, fl, Heap[v.x], depth + 1)
    [] OTHER -> FmtPointer(verb, fl, v)

\* the heap cells and maps a value refers to
RECURSIVE Refs(_)
Refs(v) ==
  CASE v.k = "ptr" -> IF v.x = 0 THEN {} ELSE {<<"h", v.x>>}
    [] v.k = "slice" -> {<<"h", v.x[1] + i * SizeOf(ElemType(v.t))>> : i \in 0..(v.x[2] - 1)}
    [] v.k = "map" -> IF v.x = 0 THEN {} ELSE {<<"m", v.x>>}
    [] v.k = "interface" -> IF v.x.k = "invalid" THEN {} ELSE Refs(v.x)
    [] v.k \in {"struct", "array"} -> UNION {Refs(v.x[i]) : i \in 1..Len(v.x)}
    [] OTHER -> {}

NodeRefs(n) ==
  IF n[1] = "h" THEN Refs(Heap[n[2]])
  ELSE UNION {Refs(MapTab[n[2]][i][1]) \cup Refs(MapTab[n[2]][i][2]) : i \in 1..Len(MapTab[n[2]])}

RECURSIVE Reach(_)
Reach(S) ==
  LET T == S \cup UNION {NodeRefs(n) : n \in S} IN IF T = S THEN S ELSE Reach(T)

\* formatter's pretty rendering ("%# v"): the Go-syntax text of the value,
\* when the rendering returns (RenderOpen)
Render(rv) ==
  CASE rv.v.k = "int" -> ToString(rv.v.x)
    [] rv.v.k = "string" -> Quote(rv.v.x)
    [] rv.v.k = "ptr" ->
         IF rv.v.x = 0 THEN "(" \o rv.v.t \o ")(nil)"
         ELSE "&" \o Heap[rv.v.x].t \o "{...}"
    [] rv.v.k = "func" -> "(" \o rv.v.t \o ")(0x" \o Hex(rv.v.x) \o ")"
    [] rv.v.k = "invalid" -> "nil"
    [] OTHER -> rv.v.t \o "{...}"

\* the flags as doPrintf sets them for the verb of a directive: under %v,
\* and under %w, whose case falls through to that of %v, '#' and '+' select
\* the Go syntax and the field names instead
Adjust(fl, verb) ==
  IF verb \in {"v", "w"}
  THEN [fl EXCEPT !.sharpV = fl.sharp, !.sharp = FALSE, !.plusV = fl.plus, !.plus = FALSE]
  ELSE fl

\* formatter.Format prints the value prettily under "%# v"
FormatterFormat(verb, fl, rv) == verb = "v" /\ (fl.sharp \/ fl.sharpV) /\ fl.space

\* The rendering of rv is not known to return: rv holds, at some depth, a
\* value that holds itself (a ring of pointers, a slice or a map that is its
\* own element), and nothing says that the walk of the rendering stops
\* there.  A call that renders such a value keeps both outcomes: the
\* rendering returns the text Render, or it does not return
\* (RenderNoReturn).
RenderOpen(rv) == \E n \in Reach(Refs(rv.v)) : n \in Reach(NodeRefs(n))

\* the flags formatter.Format hands on when it prints the value again under
\* the same flags, width, precision and verb
PassThrough(verb, fl) ==
  Adjust([fl EXCEPT !.sharp = fl.sharp \/ fl.sharpV, !.sharpV = FALSE,
                    !.plus = fl.plus \/ fl.plusV, !.plusV = FALSE], verb)

\* What reflection prints of the runtime's descriptor of type x (%d, %#v, %p
\* ... of a reflect.Type): its fields and addresses are the build's, not the
\* program's; the text stands for them.
RtypeInternals(x) == "&{rtype " \o x \o "}"

\* What reflection prints of a formatter struct when its Format method is
\* not used (inside %!p(...)): words of the runtime, not of the program.
FormatterInternals(rv) == "{formatter " \o Render(rv) \o "}"

\* fmt.(*pp).printValue, from the top, of the value v a reflect.Value or a
\* formatter holds: its text, or no return when the walk does not end
FormatValue(verb, fl, v) ==
  IF Overflows(verb, v, TRUE, PrintFuel) THEN Fatal ELSE PrintValue(verb, fl, v, 0)

\* What printArg hands to printValue of the operand arg: the value v and
\* the verb it is printed under, %v inside %!p(type=value) and
\* %!w(type=value); held says that handleMethods refuses %w of the value a
\* reflect.Value holds
Printed(verb, arg) ==
  LET isTy == arg.t = "*reflect.rtype"
      held == verb = "w" /\ arg.t = "reflect.Value" /\ arg.x.v.k # "invalid"
  IN [held |-> held,
      verb |-> IF verb = "p" \/ held THEN "v" ELSE verb,
      v |-> IF arg.t = "pretty.formatter" \/ held THEN Concrete(arg.x.v)
            ELSE IF arg.t = "reflect.Value" THEN arg.x.v
            ELSE [k |-> IF arg.t = "string" \/ isTy THEN "string" ELSE "int",
                  t |-> IF isTy THEN "string" ELSE arg.t, x |-> arg.x]]

\* printArg of the operand does not return: it hands printValue a value
\* whose walk does not end.  %T prints the type alone, and a formatter
\* prints through its Format method or, under %p and %w, as a struct.
ArgOverflows(verb, fl, arg) ==
  /\ verb # "T"
  /\ arg.t = "pretty.formatter" =>
       (verb \notin {"p", "w"} /\ ~FormatterFormat(verb, fl, arg.x))
  /\ Overflows(Printed(verb, arg).verb, Printed(verb, arg).v, TRUE, PrintFuel)

\* fmt.(*pp).printArg: %T and %p first, then the operand by its type; %p of
\* an operand that is no pointer prints %!p(type=value), the value under %v.
\* handleMethods refuses %w outside Errorf: %!w(type=value), with the type
\* and the value of what a reflect.Value holds.  No return when the walk of
\* the value does not end.
FormatArg(verb, fl, arg) ==
  LET isFo == arg.t = "pretty.formatter"
      isTy == arg.t = "*reflect.rtype"
      p == Printed(verb, arg)
  IN IF ArgOverflows(verb, fl, arg) THEN Fatal
     ELSE IF verb = "T" THEN FmtS(fl, arg.t)
     ELSE IF isTy /\ verb = "w" THEN BadVerb(verb, arg.t, RtypeInternals(arg.x))
     ELSE IF isTy /\ ~(verb \in {"v", "s", "x", "X", "q"} /\ ~fl.sharpV)
     THEN RtypeInternals(arg.x)
     ELSE IF isFo /\ verb \in {"p", "w"} THEN BadVerb(verb, arg.t, FormatterInternals(arg.x))
     ELSE IF isFo /\ FormatterFormat(verb, fl, arg.x) THEN Render(arg.x)
     ELSE IF p.held /\ p.v.k = "interface" THEN "%!w(<nil>)"
     ELSE Let(FormatValue(p.verb, IF isFo THEN PassThrough(verb, fl) ELSE fl, p.v),
              LAMBDA str :
                IF verb = "p" THEN BadVerb(verb, arg.t, str)
                ELSE IF p.held THEN BadVerb(verb, p.v.t, str)
                ELSE str)

\* the flags of a directive, from position i of the format
RECURSIVE ParseFlags(_, _, _)
ParseFlags(f, i, fl) ==
  IF i > Len(f) \/ Ch(f, i) \notin {"#", " ", "+", "-", "0"} THEN [i |-> i, fl |-> fl]
  ELSE ParseFlags(f, i + 1,
         CASE Ch(f, i) = "#" -> [fl EXCEPT !.sharp = TRUE]
           [] Ch(f, i) = "0" -> [fl EXCEPT !.zero = TRUE]
           [] Ch(f, i) = "+" -> [fl EXCEPT !.plus = TRUE]
           [] Ch(f, i) = "-" -> [fl EXCEPT !.minus = TRUE]
           [] Ch(f, i) = " " -> [fl EXCEPT !.space = TRUE])

\* fmt.tooLarge
TooLarge(x) == x > 1000000 \/ x < 0 - 1000000

\* fmt.parsenum: the number at f[start .. end - 1]
RECURSIVE ParseNumFrom(_, _, _, _, _)
ParseNumFrom(f, i, end, num, isnum) ==
  IF i < end /\ IsDigit(Ch(f, i))
  THEN IF TooLarge(num) THEN [num |-> 0, ok |-> FALSE, i |-> end]
       ELSE ParseNumFrom(f, i + 1, end, num * 10 + DigitVal(Ch(f, i)), TRUE)
  ELSE [num |-> num, ok |-> isnum, i |-> i]
ParseNum(f, start, end) ==
  IF start >= end THEN [num |-> 0, ok |-> FALSE, i |-> end]
  ELSE ParseNumFrom(f, start, end, 0, FALSE)

\* fmt.parseArgNumber on f[i ..], which starts with '[': the operand number
\* (counted from 1) and the width of the bracketed text
ParseArgNumber(f, i) ==
  Let({j \in (i + 1)..Len(f) : Ch(f, j) = "]"}, LAMBDA close :
    IF Len(f) - i + 1 < 3 \/ close = {} THEN [index |-> 0, wid |-> 1, ok |-> FALSE]
    ELSE Let(CHOOSE m \in close : \A k \in close : m <= k, LAMBDA j :
         Let(ParseNum(f, i + 1, j), LAMBDA r :
           IF ~r.ok \/ r.i # j THEN [index |-> 0, wid |-> j - i + 1, ok |-> FALSE]
           ELSE [index |-> r.num, wid |-> j - i + 1, ok |-> TRUE])))

\* fmt.(*pp).argNumber: n is the next operand (counted from 1); good is
\* FALSE when the index is bad, re when operands are taken out of order
ArgNumber(f, i, n, numArgs) ==
  IF i > Len(f) \/ Ch(f, i) # "["
  THEN [n |-> n, i |-> i, found |-> FALSE, good |-> TRUE, re |-> FALSE]
  ELSE Let(ParseArgNumber(f, i), LAMBDA p :
       IF p.ok /\ 1 <= p.index /\ p.index <= numArgs
       THEN [n |-> p.index, i |-> i + p.wid, found |-> TRUE, good |-> TRUE, re |-> TRUE]
       ELSE [n |-> n, i |-> i + p.wid, found |-> p.ok, good |-> FALSE, re |-> TRUE])

\* fmt.intFromArg: the operand taken by a '*'
IntFromArg(args, n) ==
  IF n > Len(args) THEN [num |-> 0, ok |-> FALSE, n |-> n]
  ELSE IF args[n].t \in {"int", "int64", "uintptr"} /\ ~TooLarge(args[n].x)
       THEN [num |-> args[n].x, ok |-> TRUE, n |-> n + 1]
  ELSE [num |-> 0, ok |-> FALSE, n |-> n + 1]

\* the width of a directive: a number in the format or the operand of a '*'
Width(f, args, fl, a2) ==
  LET end == Len(f) + 1
      star == a2.i < end /\ Ch(f, a2.i) = "*"
  IN Let(IF star THEN IntFromArg(args, a2.n) ELSE ParseNum(f, a2.i, end), LAMBDA w :
       [i |-> IF star THEN a2.i + 1 ELSE w.i,
        n |-> IF star THEN w.n ELSE a2.n,
        fl |-> IF ~w.ok THEN fl
               ELSE IF w.num < 0
                    THEN [fl EXCEPT !.wid = 0 - w.num, !.minus = TRUE, !.zero = FALSE]
               ELSE [fl EXCEPT !.wid = w.num],
        pre |-> IF star /\ ~w.ok THEN "%!(BADWIDTH)" ELSE "",
        after |-> ~star /\ a2.found,
        good |-> a2.good /\ ~(~star /\ a2.found /\ w.ok),
        re |-> a2.re])

\* the precision of a directive, after its width w3: '.', an operand index,
\* then a number in the format or the operand of a '*'
Precision(f, args, w3) ==
  LET end == Len(f) + 1 IN
  IF ~(w3.i < end /\ Ch(f, w3.i) = ".") THEN w3
  ELSE Let(ArgNumber(f, w3.i + 1, w3.n, Len(args)), LAMBDA a5 :
       LET star == a5.i < end /\ Ch(f, a5.i) = "*" IN
       Let(IF star THEN IntFromArg(args, a5.n) ELSE ParseNum(f, a5.i, end), LAMBDA p :
       LET precOK == ~star \/ (p.ok /\ p.num >= 0) IN
         [i |-> IF star THEN a5.i + 1 ELSE p.i,
          n |-> IF star THEN p.n ELSE a5.n,
          fl |-> [w3.fl EXCEPT !.prec = IF star THEN (IF precOK THEN p.num ELSE 0 - 1)
                                        ELSE IF p.ok THEN p.num ELSE 0],
          pre |-> w3.pre \o (IF ~precOK THEN "%!(BADPREC)" ELSE ""),
          after |-> ~star /\ a5.found,
          good |-> w3.good /\ ~w3.after /\ a5.good,
          re |-> w3.re \/ a5.re]))

\* One directive of doPrintf, from the position i after its '%' with operand
\* n next: flags, operand index, width, precision, operand index.  j is the
\* position of the verb, n the operand it prints, pre the text written
\* before it, good is p.goodArgNum, re whether an operand index was met.
Directive(f, i, args, n) ==
  Let(ParseFlags(f, i, NoFlags), LAMBDA s1 :
  Let(ArgNumber(f, s1.i, n, Len(args)), LAMBDA a2 :
  Let(Width(f, args, s1.fl, a2), LAMBDA w3 :
  Let(Precision(f, args, w3), LAMBDA p6 :
  Let(IF p6.after
      THEN [n |-> p6.n, i |-> p6.i, found |-> TRUE, good |-> TRUE, re |-> FALSE]
      ELSE ArgNumber(f, p6.i, p6.n, Len(args)), LAMBDA a7 :
    [j |-> a7.i, n |-> a7.n, fl |-> p6.fl, pre |-> p6.pre,
     good |-> p6.good /\ a7.good, re |-> p6.re \/ a7.re])))))

\* position of the verb of the directive whose '%' is at i - 1
VerbAt(f, i) == Directive(f, i, <<>>, 1).j

\* the operands of %!(EXTRA type=value, ...) from the n-th on: their text,
\* or no return
RECURSIVE ExtraArgs(_, _)
ExtraArgs(args, n) ==
  IF \E m \in n..Len(args) : ArgOverflows("v", NoFlags, args[m]) THEN Fatal
  ELSE IF n > Len(args) THEN ""
  ELSE args[n].t \o "=" \o FormatArg("v", NoFlags, args[n])
       \o (IF n < Len(args) THEN ", " ELSE "") \o ExtraArgs(args, n + 1)

\* The operands doPrintf hands to printArg from position i of the format on,
\* in order, each [verb, fl, arg] with the verb and the flags it is printed
\* under; the operands left over are printed under %v with no flag.
RECURSIVE Operands(_, _, _, _, _)
Operands(f, i, args, n, re) ==
  IF i > Len(f)
  THEN IF ~re /\ n <= Len(args)
       THEN [m \in 1..(Len(args) - n + 1) |->
               [verb |-> "v", fl |-> NoFlags, arg |-> args[n + m - 1]]]
       ELSE <<>>
  ELSE IF Ch(f, i) # "%" THEN Operands(f, i + 1, args, n, re)
  ELSE Let(Directive(f, i + 1, args, n), LAMBDA d :
       LET verb == RuneAt(f, d.j)
           next == d.j + Len(verb)
           re2 == re \/ d.re
       IN IF d.j > Len(f) THEN Operands(f, d.j, args, d.n, re2)
          ELSE IF verb = "%" \/ ~d.good \/ d.n > Len(args)
               THEN Operands(f, next, args, d.n, re2)
          ELSE <<[verb |-> verb, fl |-> Adjust(d.fl, verb), arg |-> args[d.n]]>>
               \o Operands(f, next, args, d.n + 1, re2))

\* doPrintf does not return: printArg of one of its operands does not
DoPrintfOverflows(f, i, args, n, re) ==
  Let(Operands(f, i, args, n, re), LAMBDA ops :
    \E k \in 1..Len(ops) : ArgOverflows(ops[k].verb, ops[k].fl, ops[k].arg))

\* fmt.(*pp).doPrintf from position i of the format with operand n next; re
\* is p.reordered.  The text it writes, or no return.
RECURSIVE DoPrintf(_, _, _, _, _)
DoPrintf(f, i, args, n, re) ==
  IF DoPrintfOverflows(f, i, args, n, re) THEN Fatal
  ELSE IF i > Len(f)
  THEN IF ~re /\ n <= Len(args) THEN "%!(EXTRA " \o ExtraArgs(args, n) \o ")" ELSE ""
  ELSE IF Ch(f, i) # "%" THEN Ch(f, i) \o DoPrintf(f, i + 1, args, n, re)
  ELSE Let(Directive(f, i + 1, args, n), LAMBDA d :
       LET verb == RuneAt(f, d.j)
           next == d.j + Len(verb)
           re2 == re \/ d.re
       IN d.pre \o
          (IF d.j > Len(f) THEN "%!(NOVERB)" \o DoPrintf(f, d.j, args, d.n, re2)
           ELSE IF verb = "%" THEN "%" \o DoPrintf(f, next, args, d.n, re2)
           ELSE IF ~d.good
                THEN "%!" \o verb \o "(BADINDEX)" \o DoPrintf(f, next, args, d.n, re2)
           ELSE IF d.n > Len(args)
                THEN "%!" \o verb \o "(MISSING)" \o DoPrintf(f, next, args, d.n, re2)
           ELSE FormatArg(verb, Adjust(d.fl, verb), args[d.n])
                \o DoPrintf(f, next, args, d.n + 1, re2)))

\* fmt.Sprintf: the text, or Fatal when the call does not return
Sprintf(f, args) == DoPrintf(f, 1, args, 1, FALSE)

\* the operands of Sprintf(f, args) whose rendering by formatter.Format is
\* not known to return
OpenRenderings(f, args) ==
  Let(Operands(f, 1, args, 1, FALSE), LAMBDA ops :
    {k \in 1..Len(ops) :
       /\ ops[k].arg.t = "pretty.formatter"
       /\ FormatterFormat(ops[k].verb, ops[k].fl, ops[k].arg.x)
       /\ RenderOpen(ops[k].arg.x)})

(***************************************************************************)
(* diffPrinter: printf and relabel.                                        *)
(***************************************************************************)
\* a call d.printf(f, a...) on a printer whose label is l
Report(l, f, a) == [l |-> l, f |-> f, a |-> a]

\* diffPrinter.printf: the line the sink's Printf renders.  The label is
\* joined to the format, and the sink formats the joined string.
LineFormat(l, f) == (IF l # "" THEN l \o ": " ELSE "") \o f
PrintfLine(l, f, a) == Sprintf(LineFormat(l, f), a)

\* the line of a report, or Fatal when its printf does not return
LineOf(r) == PrintfLine(r.l, r.f, r.a)

\* the printf of report r does not return: fmt walks an operand that holds
\* itself until the stack is exhausted
Overflow(r) == DoPrintfOverflows(LineFormat(r.l, r.f), 1, r.a, 1, FALSE)


RECURSIVE LinesOf(_)
LinesOf(rs) == IF rs = <<>> THEN <<>> ELSE <<LineOf(Head(rs))>> \o LinesOf(Tail(rs))

\* diffPrinter.relabel: the label of the printer derived for segment name
relabel(l, name) ==
  IF l # "" /\ Ch(name, 1) # "[" THEN l \o "." \o name ELSE l \o name

(***************************************************************************)
(* keyEqual, keyDiff and the map lookup.                                   *)
(***************************************************************************)
RECURSIVE keyEqual(_, _)
RECURSIVE keyEqualAll(_, _, _)
keyEqualAll(av, bv, n) ==
  IF n = 0 THEN TRUE
  ELSE keyEqualAll(av, bv, n - 1) /\
       keyEqual(IF av.v.k = "struct" THEN Field(av, n) ELSE Index(av, n - 1),
                IF bv.v.k = "struct" THEN Field(bv, n) ELSE Index(bv, n - 1))
keyEqual(av, bv) ==
  IF ~IsValid(av) /\ ~IsValid(bv) THEN TRUE
  ELSE IF ~IsValid(av) \/ ~IsValid(bv) \/ TypeOf(av) # TypeOf(bv) THEN FALSE
  ELSE CASE Kind(av) \in {"int", "string", "ptr"} -> av.v.x = bv.v.x
         [] Kind(av) \in {"array", "struct"} -> keyEqualAll(av, bv, Len(av.v.x))
         [] Kind(av) = "interface" -> keyEqual(Elem(av), Elem(bv))

HasEqualKey(k, ks) == \E j \in 1..Len(ks) : keyEqual(k, ks[j])

\* keyDiff with the second loop's test dropped: every key of b is right-only
keyDiffAllRight(a, b) ==
  [ak |-> SelectSeq(a, LAMBDA k : ~HasEqualKey(k, b)),
   both |-> SelectSeq(a, LAMBDA k : HasEqualKey(k, b)),
   bk |-> b]

\* keyDiff: a's keys without and with an equal key in b, b's keys without an
\* equal key in a, each in the order of the slice it comes from
keyDiff(a, b) ==
  [ak |-> SelectSeq(a, LAMBDA k : ~HasEqualKey(k, b)),
   both |-> SelectSeq(a, LAMBDA k : HasEqualKey(k, b)),
   bk |-> SelectSeq(b, LAMBDA k : ~HasEqualKey(k, a))]

\* Value.MapIndex: the value stored under k, not addressable; invalid if absent
MapIndex(rv, k) ==
  LET es == Entries(rv)
      hit == {i \in 1..Len(es) : keyEqual(ValueOf(es[i][1]), k)}
  IN IF hit = {} THEN ValueOf(Invalid) ELSE ValueOf(es[CHOOSE i \in hit : TRUE][2])

(***************************************************************************)
(* diffPrinter.diff: one invocation, without the invocations it makes.     *)
(* Its result is [emits, kids, post, aV, bV, usedKeys]: the reports made   *)
(* before recursing, the recursive invocations in order (name is the       *)
(* segment the printer is relabelled with, "" when it is not relabelled),  *)
(* the reports made after them, and the two VisitedSets afterwards.        *)
(***************************************************************************)
EmptyMap == [x \in {} |-> x]

\* type visit struct { v uintptr; typ reflect.Type }
Visit(rv) == <<rv.addr, rv.v.t>>

\* m[k] = v on a Go map
Put(m, k, v) == [x \in DOMAIN m \cup {k} |-> IF x = k THEN v ELSE m[x]]

Kid(name, av, bv) == [name |-> name, av |-> av, bv |-> bv]

TypesDiffer(av, bv) == TypeOf(av) # TypeOf(bv)

\* GuardApplies without the CanAddr tests
GuardAlways(av, bv) == TRUE

GuardApplies(av, bv) == CanAddr(av) /\ CanAddr(bv)

\* CycleReports without the comparison vis != bvis: every revisit is reported
CycleReportsEveryRevisit(l, av, bv, aV, bV) ==
  IF Visit(av) \in DOMAIN aV
  THEN <<Report(l, "%# v (previously visited) != %# v", <<FmtArg(av), FmtArg(bv)>>)>>
  ELSE IF Visit(bv) \in DOMAIN bV
  THEN <<Report(l, "%# v != %# v (previously visited)", <<FmtArg(av), FmtArg(bv)>>)>>
  ELSE <<>>

\* the reports of the cycle check
\* CycleReports with both revisit reports dropped
CycleReportsNever(l, av, bv, aV, bV) == <<>>

CycleReports(l, av, bv, aV, bV) ==
  IF Visit(av) \in DOMAIN aV
  THEN IF aV[Visit(av)] # Visit(bv)
       THEN <<Report(l, "%# v (previously visited) != %# v", <<FmtArg(av), FmtArg(bv)>>)>>
       ELSE <<>>
  ELSE IF Visit(bv) \in DOMAIN bV
  THEN <<Report(l, "%# v != %# v (previously visited)", <<FmtArg(av), FmtArg(bv)>>)>>
  ELSE <<>>

\* IsCycle with the else-if branch dropped: only a revisit on the left counts
IsCycleLeftOnly(av, bv, aV, bV) == Visit(av) \in DOMAIN aV

\* var cycle bool, as the cycle check leaves it
IsCycle(av, bv, aV, bV) == Visit(av) \in DOMAIN aV \/ Visit(bv) \in DOMAIN bV

\* Record that keeps the entry of a key already present
RecordIfAbsent(m, k, v) == IF k \in DOMAIN m THEN m ELSE Put(m, k, v)

\* d.aVisited[avis] = bvis and d.bVisited[bvis] = avis
Record(m, k, v) == Put(m, k, v)

\* the cycle check of a pair of addressable values
CycleGuard(l, av, bv, aV, bV) ==
  [cycle |-> IsCycle(av, bv, aV, bV),
   emits |-> CycleReports(l, av, bv, aV, bV),
   aV |-> Record(aV, Visit(av), Visit(bv)),
   bV |-> Record(bV, Visit(bv), Visit(av))]

IndexKids(av, bv, n) ==
  [i \in 1..n |-> Kid(Sprintf("[%d]", <<IntArg(i - 1)>>), Index(av, i - 1), Index(bv, i - 1))]

KeyLabel(l, k) == relabel(l, Sprintf("[%#v]", <<RVArg(k)>>))

\* the switch on at.Kind(); ka and kb are av.MapKeys() and bv.MapKeys()
ByKind(l, av, bv, ka, kb) ==
  LET leaf(rs) == [emits |-> rs, kids |-> <<>>, post |-> <<>>]
      into(ks) == [emits |-> <<>>, kids |-> ks, post |-> <<>>]
  IN
  CASE Kind(av) = "int" ->
         leaf(IF av.v.x # bv.v.x
              THEN <<Report(l, "%d != %d", <<Int64Arg(av.v.x), Int64Arg(bv.v.x)>>)>>
              ELSE <<>>)
    [] Kind(av) = "string" ->
         leaf(IF av.v.x # bv.v.x
              THEN <<Report(l, "%q != %q", <<StrArg(av.v.x), StrArg(bv.v.x)>>)>>
              ELSE <<>>)
    [] Kind(av) = "array" -> into(IndexKids(av, bv, LenOf(av)))
    [] Kind(av) = "func" ->
         leaf(IF av.v.x # bv.v.x
              THEN <<Report(l, "%#x != %#x", <<PtrArg(av.v.x), PtrArg(bv.v.x)>>)>>
              ELSE <<>>)
    [] Kind(av) = "interface" -> into(<<Kid("", Elem(av), Elem(bv))>>)
    [] Kind(av) = "map" ->
         Let(keyDiff(ka, kb), LAMBDA kd :
         [emits |-> [i \in 1..Len(kd.ak) |->
                       Report(KeyLabel(l, kd.ak[i]), "%q != (missing)",
                              <<RVArg(MapIndex(av, kd.ak[i]))>>)],
          kids |-> [i \in 1..Len(kd.both) |->
                      Kid(Sprintf("[%#v]", <<RVArg(kd.both[i])>>),
                          MapIndex(av, kd.both[i]), MapIndex(bv, kd.both[i]))],
          post |-> [i \in 1..Len(kd.bk) |->
                      Report(KeyLabel(l, kd.bk[i]), "(missing) != %q",
                             <<RVArg(MapIndex(bv, kd.bk[i]))>>)]])
    [] Kind(av) = "ptr" ->
         CASE IsNil(av) /\ ~IsNil(bv) -> leaf(<<Report(l, "nil != %# v", <<FmtArg(bv)>>)>>)
           [] ~IsNil(av) /\ IsNil(bv) -> leaf(<<Report(l, "%# v != nil", <<FmtArg(av)>>)>>)
           [] ~IsNil(av) /\ ~IsNil(bv) -> into(<<Kid("", Elem(av), Elem(bv))>>)
           [] OTHER -> leaf(<<>>)
    [] Kind(av) = "slice" ->
         IF LenOf(av) # LenOf(bv)
         THEN leaf(<<Report(l, "%s[%d] != %s[%d]",
                            <<TypeArg(TypeOf(av)), IntArg(LenOf(av)),
                              TypeArg(TypeOf(bv)), IntArg(LenOf(bv))>>)>>)
         ELSE into(IndexKids(av, bv, LenOf(av)))
    [] Kind(av) = "struct" ->
         into([i \in 1..NumField(av) |->
                 Kid(FieldNames(TypeOf(av))[i], Field(av, i), Field(bv, i))])

\* a result that ends the invocation: reports rs, VisitedSets as they were
Stop(rs, aV, bV) ==
  [emits |-> rs, kids |-> <<>>, post |-> <<>>, aV |-> aV, bV |-> bV,
   cycle |-> FALSE, usedKeys |-> FALSE]

\* TypeMismatch with the pair recorded before the types are compared
TypeMismatchRecorded(l, av, bv, aV, bV) ==
  Stop(<<Report(l, "%v != %v", <<TypeArg(TypeOf(av)), TypeArg(TypeOf(bv))>>)>>,
       Put(aV, Visit(av), Visit(bv)), Put(bV, Visit(bv), Visit(av)))

\* at != bt: one report naming both types, then return
TypeMismatch(l, av, bv, aV, bV) ==
  Stop(<<Report(l, "%v != %v", <<TypeArg(TypeOf(av)), TypeArg(TypeOf(bv))>>)>>, aV, bV)

diffBody(l, av, bv, aV, bV, ka, kb) ==
  IF ~IsValid(av) /\ IsValid(bv)
  THEN Stop(<<Report(l, "nil != %# v", <<FmtArg(bv)>>)>>, aV, bV)
  ELSE IF IsValid(av) /\ ~IsValid(bv)
  THEN Stop(<<Report(l, "%# v != nil", <<FmtArg(av)>>)>>, aV, bV)
  ELSE IF ~IsValid(av) /\ ~IsValid(bv) THEN Stop(<<>>, aV, bV)
  ELSE IF TypesDiffer(av, bv) THEN TypeMismatch(l, av, bv, aV, bV)
  ELSE Let(IF GuardApplies(av, bv) THEN CycleGuard(l, av, bv, aV, bV)
           ELSE [cycle |-> FALSE, emits |-> <<>>, aV |-> aV, bV |-> bV], LAMBDA g :
       IF g.cycle
       THEN [emits |-> g.emits, kids |-> <<>>, post |-> <<>>,
             aV |-> g.aV, bV |-> g.bV, cycle |-> TRUE, usedKeys |-> FALSE]
       ELSE Let(ByKind(l, av, bv, ka, kb), LAMBDA r :
            [emits |-> r.emits, kids |-> r.kids, post |-> r.post,
             aV |-> g.aV, bV |-> g.bV, cycle |-> FALSE,
             usedKeys |-> Kind(av) = "map"]))

\* the label of the printer an invocation made for kid runs on
KidLabel(l, kid) == IF kid.name = "" THEN l ELSE relabel(l, kid.name)

\* the key orders Value.MapKeys may return at an invocation on rv
KeyOrders(rv) == IF Kind(rv) = "map" THEN MapKeysOrders(rv) ELSE {<<>>}

(***************************************************************************)
(* The calls.  Each call c of Pdiff has a call stack of diff invocations;  *)
(* a frame is [l, av, bv, st, cycle, kids, i, post] with st "enter" before *)
(* the invocation's own code has run and "loop" while it makes its         *)
(* recursive invocations, i the next of them, and cycle its local          *)
(* variable of that name.  steps[c] counts the steps call c has taken.     *)
(* pc[c] is "idle" before the call, "run" during it, "done" once it has    *)
(* returned, and "fatal" when one of its printf calls did not return: the  *)
(* call never returns, and the program takes no other step.                *)
(***************************************************************************)
Calls == {1, 2}

\* VisitedOf with one pair of VisitedSets for the package
VisitedShared(c) == 1

\* the pair of VisitedSets the diffPrinter of call c holds
VisitedOf(c) == c

Frame(l, av, bv) ==
  [l |-> l, av |-> av, bv |-> bv, st |-> "enter", cycle |-> FALSE,
   kids |-> <<>>, i |-> 1, post |-> <<>>]

Top(c) == stack[c][Len(stack[c])]

\* the program has not ended
Alive == \A d \in Calls : pc[d] # "fatal"

Init ==
  /\ pc = [c \in Calls |-> "idle"]
  /\ in = [c \in Calls |-> <<0, 0>>]
  /\ stack = [c \in Calls |-> <<>>]
  /\ out = [c \in Calls |-> <<>>]
  /\ reports = [c \in Calls |-> <<>>]
  /\ aVisited = [c \in Calls |-> EmptyMap]
  /\ bVisited = [c \in Calls |-> EmptyMap]
  /\ picks = [c \in Calls |-> <<>>]
  /\ steps = [c \in Calls |-> 0]

\* Pdiff(p, a, b) up to its invocation of d.diff, on a fresh sink
Pdiff(c, i, j) ==
  /\ pc[c] = "idle" /\ Alive
  /\ pc' = [pc EXCEPT ![c] = "run"]
  /\ in' = [in EXCEPT ![c] = <<i, j>>]
  /\ stack' = [stack EXCEPT ![c] = <<Frame("", ValueOf(Roots[i]), ValueOf(Roots[j]))>>]
  /\ out' = [out EXCEPT ![c] = <<>>]
  /\ reports' = [reports EXCEPT ![c] = <<>>]
  /\ aVisited' = [aVisited EXCEPT ![VisitedOf(c)] = EmptyMap]
  /\ bVisited' = [bVisited EXCEPT ![VisitedOf(c)] = EmptyMap]
  /\ picks' = [picks EXCEPT ![c] = <<>>]
  /\ steps' = [steps EXCEPT ![c] = 0]

\* an invocation of diff runs up to its first recursive invocation; every
\* printf it makes returns
Enter(c) ==
  /\ pc[c] = "run" /\ Alive
  /\ Top(c).st = "enter"
  /\ \E ka \in KeyOrders(Top(c).av), kb \in KeyOrders(Top(c).bv) :
       \E f \in {Top(c)} :
       \E r \in {diffBody(f.l, f.av, f.bv, aVisited[VisitedOf(c)],
                          bVisited[VisitedOf(c)], ka, kb)} :
          /\ \A i \in 1..Len(r.emits) : ~Overflow(r.emits[i])
          /\ stack' = [stack EXCEPT ![c][Len(stack[c])] =
                         [f EXCEPT !.st = "loop", !.cycle = r.cycle,
                                   !.kids = r.kids, !.post = r.post]]
          /\ reports' = [reports EXCEPT ![c] = @ \o r.emits]
          /\ out' = [out EXCEPT ![c] = @ \o LinesOf(r.emits)]
          /\ aVisited' = [aVisited EXCEPT ![VisitedOf(c)] = r.aV]
          /\ bVisited' = [bVisited EXCEPT ![VisitedOf(c)] = r.bV]
          /\ picks' = [picks EXCEPT ![c] = IF r.usedKeys THEN Append(@, <<ka, kb>>) ELSE @]
  /\ steps' = [steps EXCEPT ![c] = @ + 1]
  /\ UNCHANGED <<pc, in>>

\* the next recursive invocation of diff
Descend(c) ==
  /\ pc[c] = "run" /\ Alive
  /\ Top(c).st = "loop"
  /\ Top(c).i <= Len(Top(c).kids)
  /\ Len(stack[c]) < MaxDepth
  /\ LET f == Top(c)
         kid == f.kids[f.i]
     IN stack' = [stack EXCEPT ![c] =
                    Append([@ EXCEPT ![Len(@)].i = f.i + 1],
                           Frame(KidLabel(f.l, kid), kid.av, kid.bv))]
  /\ steps' = [steps EXCEPT ![c] = @ + 1]
  /\ UNCHANGED <<pc, in, out, reports, aVisited, bVisited, picks>>

\* an invocation of diff returns, every printf it still makes returning;
\* the outermost one ends the call
Return(c) ==
  /\ pc[c] = "run" /\ Alive
  /\ Top(c).st = "loop"
  /\ Top(c).i > Len(Top(c).kids)
  /\ \A i \in 1..Len(Top(c).post) : ~Overflow(Top(c).post[i])
  /\ reports' = [reports EXCEPT ![c] = @ \o Top(c).post]
  /\ out' = [out EXCEPT ![c] = @ \o LinesOf(Top(c).post)]
  /\ stack' = [stack EXCEPT ![c] = SubSeq(@, 1, Len(@) - 1)]
  /\ pc' = [pc EXCEPT ![c] = IF Len(stack[c]) = 1 THEN "done" ELSE "run"]
  /\ steps' = [steps EXCEPT ![c] = @ + 1]
  /\ UNCHANGED <<in, aVisited, bVisited, picks>>

\* A printf of the invocation on top of c's stack does not return: the i-th
\* of the reports rs the invocation makes at this point (those before its
\* recursive invocations, or those after them), because fmt walks a value
\* that holds itself or, when open, because formatter renders one.  The
\* lines of the reports before it have reached the sink; the call never
\* returns and the program takes no other step, so the stack and the
\* VisitedSets are left as they were.
Ends(c, open) ==
  /\ \E ka \in KeyOrders(Top(c).av), kb \in KeyOrders(Top(c).bv) :
       \E f \in {Top(c)} :
       \E rs \in {IF f.st = "enter"
                  THEN diffBody(f.l, f.av, f.bv, aVisited[VisitedOf(c)],
                                bVisited[VisitedOf(c)], ka, kb).emits
                  ELSE IF f.i > Len(f.kids) THEN f.post ELSE <<>>} :
       \E i \in 1..Len(rs) :
          /\ IF open THEN OpenRenderings(LineFormat(rs[i].l, rs[i].f), rs[i].a) # {}
             ELSE Overflow(rs[i])
          /\ \A j \in 1..(i - 1) : ~Overflow(rs[j])
          /\ reports' = [reports EXCEPT ![c] = @ \o SubSeq(rs, 1, i - 1)]
          /\ out' = [out EXCEPT ![c] = @ \o LinesOf(SubSeq(rs, 1, i - 1))]
  /\ pc' = [pc EXCEPT ![c] = "fatal"]
  /\ UNCHANGED <<in, stack, aVisited, bVisited, picks, steps>>

\* a printf of the invocation on top of c's stack hands fmt a value that
\* holds itself: the stack of the goroutine is exhausted, the program ends
StackOverflow(c) ==
  /\ pc[c] = "run" /\ Alive
  /\ Ends(c, FALSE)

\* a printf of the invocation on top of c's stack has formatter render a
\* value that holds itself, and the rendering does not return
RenderNoReturn(c) ==
  /\ pc[c] = "run" /\ Alive
  /\ Ends(c, TRUE)

(***************************************************************************)
(* Pdiff as a function: the whole comparison of one call run by itself.    *)
(* s is [aV, bV, reps, keys, fatal]: the VisitedSets, the reports so far,  *)
(* the results the MapKeys calls still to come return, and whether a       *)
(* printf did not return.  The comparison ends at the first printf that    *)
(* does not return: no later report is made, no later invocation runs.     *)
(***************************************************************************)
RECURSIVE diffRec(_, _, _, _)
RECURSIVE diffKids(_, _, _, _)
diffKids(l, kids, i, s) ==
  IF i > Len(kids) \/ s.fatal THEN s
  ELSE diffKids(l, kids, i + 1, diffRec(KidLabel(l, kids[i]), kids[i].av, kids[i].bv, s))
diffRec(l, av, bv, s) ==
  LET more == s.keys # <<>> /\ Kind(av) = "map"
      \* the reports rs made after those of t, up to the first printf that
      \* does not return
      printed(t, rs) ==
        LET bad == {i \in 1..Len(rs) : Overflow(rs[i])} IN
        IF bad = {} THEN [t EXCEPT !.reps = @ \o rs]
        ELSE [t EXCEPT !.fatal = TRUE,
                       !.reps = @ \o SubSeq(rs, 1, (CHOOSE i \in bad :
                                                     \A j \in bad : i <= j) - 1)]
  IN
  IF s.fatal THEN s
  ELSE
  Let(diffBody(l, av, bv, s.aV, s.bV,
               IF more THEN Head(s.keys)[1] ELSE <<>>,
               IF more THEN Head(s.keys)[2] ELSE <<>>), LAMBDA r :
  Let(printed(s, r.emits), LAMBDA e :
    IF e.fatal THEN e
    ELSE Let(diffKids(l, r.kids, 1,
                      [e EXCEPT !.aV = r.aV, !.bV = r.bV,
                                !.keys = IF r.usedKeys THEN Tail(s.keys) ELSE s.keys]),
             LAMBDA t : IF t.fatal THEN t ELSE printed(t, r.post))))

\* the reports of Pdiff(a, b) run by itself, or no return
PdiffAlone(a, b, keys) ==
  Let(diffRec("", ValueOf(a), ValueOf(b),
              [aV |-> EmptyMap, bV |-> EmptyMap, reps |-> <<>>, keys |-> keys,
               fatal |-> FALSE]),
      LAMBDA s : IF s.fatal THEN Fatal ELSE s.reps)

\* Diff(a, b) with the maps' keys enumerated in the orders keys: its lines,
\* or no return
Diff(a, b, keys) ==
  Let(diffRec("", ValueOf(a), ValueOf(b),
              [aV |-> EmptyMap, bV |-> EmptyMap, reps |-> <<>>, keys |-> keys,
               fatal |-> FALSE]),
      LAMBDA s : IF s.fatal THEN Fatal ELSE LinesOf(s.reps))

\* one call at a time
Next ==
  \/ \E i, j \in 1..Len(Roots) : Pdiff(1, i, j)
  \/ Enter(1)
  \/ Descend(1)
  \/ Return(1)
  \/ StackOverflow(1)
  \/ RenderNoReturn(1)

Spec == Init /\ [][Next]_vars

\* two calls, their steps interleaved in any order
NextPar ==
  \/ \E c \in Calls : \E p \in ParPairs : Pdiff(c, p[1], p[2])
  \/ \E c \in Calls : Enter(c)
  \/ \E c \in Calls : Descend(c)
  \/ \E c \in Calls : Return(c)
  \/ \E c \in Calls : StackOverflow(c)
  \/ \E c \in Calls : RenderNoReturn(c)

SpecPar == Init /\ [][NextPar]_vars

\* call c can take a step: the guards of Enter, Descend and Return
CanStep(c) ==
  /\ pc[c] = "run" /\ Alive
  /\ \/ Top(c).st = "enter"
     \/ Top(c).i > Len(Top(c).kids)
     \/ Len(stack[c]) < MaxDepth

\* call c takes a step: the steps of Enter(c), Descend(c) and Return(c) are
\* the steps of the calls that count one more step of c
Progress(c) == CanStep(c) /\ steps' = [steps EXCEPT ![c] = @ + 1]

\* one call at a time, every rendering of formatter taken to return: what
\* is left open about the rendering is settled in favour of the call
NextLive ==
  \/ \E i, j \in 1..Len(Roots) : Pdiff(1, i, j)
  \/ Enter(1)
  \/ Descend(1)
  \/ Return(1)
  \/ StackOverflow(1)

\* a call that has started keeps running: the walker is synchronous, with
\* no suspension point, so nothing stops it between two steps
SpecLive == Init /\ [][NextLive]_vars /\ WF_steps(Progress(1))

(***************************************************************************)
(* The claims.                                                             *)
(***************************************************************************)
Started(c) == pc[c] # "idle"
Done(c) == pc[c] = "done"
RootA(c) == Roots[in[c][1]]
RootB(c) == Roots[in[c][2]]

\* C1 (reflexivity): a call Diff(v, v) hands no line to the sink, neither
\* while it runs nor when it has returned; this covers the self-referential
\* records, the shared pointees and the maps among the roots.
C1_Reflexive ==
  \A c \in Calls :
    (Started(c) /\ in[c][1] = in[c][2]) => (out[c] = <<>> /\ reports[c] = <<>>)

\* Diff(&x, &x) of the self-referential record x has returned, after the
\* cycle guard met x a second time
C1_Witness ==
  /\ Done(1) /\ in[1] = <<7, 7>> /\ out[1] = <<>>
  /\ <<16, "main.T">> \in DOMAIN aVisited[1]

\* the values diff recurses into from rv, on rv's side
ChildSeq(rv) ==
  CASE Kind(rv) \in {"array", "slice"} -> [i \in 1..LenOf(rv) |-> Index(rv, i - 1)]
    [] Kind(rv) = "struct" -> [i \in 1..NumField(rv) |-> Field(rv, i)]
    [] Kind(rv) \in {"ptr", "interface"} -> IF IsNil(rv) THEN <<>> ELSE <<Elem(rv)>>
    [] Kind(rv) = "map" -> [i \in 1..Len(Entries(rv)) |-> ValueOf(Entries(rv)[i][2])]
    [] OTHER -> <<>>

\* the map ids a value holds without a pointer dereference or a slice index
RECURSIVE InlineMaps(_)
InlineMaps(v) ==
  CASE v.k = "map" -> IF v.x = 0 THEN {} ELSE {v.x}
    [] v.k = "interface" -> IF v.x.k = "invalid" THEN {} ELSE InlineMaps(v.x)
    [] v.k \in {"struct", "array"} -> UNION {InlineMaps(v.x[i]) : i \in 1..Len(v.x)}
    [] OTHER -> {}

MapSucc(m) == UNION {InlineMaps(MapTab[m][i][2]) : i \in 1..Len(MapTab[m])}

RECURSIVE MapClosure(_)
MapClosure(S) ==
  LET T == S \cup UNION {MapSucc(m) : m \in S} IN IF T = S THEN S ELSE MapClosure(T)

\* map m lies on a cycle that passes through no addressable storage
NonAddrCyclic(m) == m \in MapClosure(MapSucc(m))

\* every cycle of the value graph of v passes through addressable storage
OnlyAddressableCycles(v) ==
  \A n \in Reach(Refs(v)) : n[1] = "m" => ~NonAddrCyclic(n[2])

\* the (address, type) identities of the addressable values reachable from rv
RECURSIVE Ids(_, _)
RECURSIVE IdsKids(_, _, _)
IdsKids(kids, i, seen) ==
  IF i > Len(kids) THEN seen ELSE IdsKids(kids, i + 1, Ids(kids[i], seen))
Ids(rv, seen) ==
  IF rv.can /\ Visit(rv) \in seen THEN seen
  ELSE IdsKids(ChildSeq(rv), 1, IF rv.can THEN seen \cup {Visit(rv)} ELSE seen)

NumIdentities(v) == Cardinality(Ids(ValueOf(v), {}))

MaxOf(S) == IF S = {} THEN 0 ELSE CHOOSE m \in S : \A n \in S : n <= m

\* the nesting depth of rv with its cycles cut: the longest chain of values,
\* each held by the one before, that repeats no identity
RECURSIVE AcyclicDepth(_, _)
AcyclicDepth(rv, path) ==
  IF rv.can /\ Visit(rv) \in path THEN 0
  ELSE 1 + MaxOf({AcyclicDepth(ChildSeq(rv)[i],
                               IF rv.can THEN path \cup {Visit(rv)} ELSE path)
                  : i \in 1..Len(ChildSeq(rv))})

Premise(c) == OnlyAddressableCycles(RootA(c)) /\ OnlyAddressableCycles(RootB(c))

DepthBound ==
  \A c \in Calls :
    (pc[c] = "run" /\ Premise(c)) =>
      Len(stack[c]) <= NumIdentities(RootA(c)) + AcyclicDepth(ValueOf(RootA(c)), {})

\* C2 (termination): a call on two value graphs whose cycles all pass through
\* addressable storage eventually returns, and while it runs its recursion
\* depth is at most the number of (address, type) identities of the left
\* graph plus that graph's nesting depth with the cycles cut.
C2_Terminates ==
  /\ [] DepthBound
  /\ \A c \in Calls : (pc[c] = "run" /\ Premise(c)) ~> Done(c)

\* Diff(map[string]interface{}{"k": s}, map[string]interface{}{}) with
\* s = []interface{}{s}: the only cycle passes through the element of s,
\* which is addressable.  The outermost invocation found k missing on the
\* right, and the printf of that report, which renders no value through
\* formatter, did not return: fmt walked s until the stack was exhausted.
\* No line has reached the sink and the call never returns.
C2_Witness ==
  LET r == Report("[\"k\"]", "%q != (missing)",
                  <<RVArg(MapIndex(ValueOf(Roots[30]), ValueOf(StrV("k"))))>>)
  IN /\ pc[1] = "fatal" /\ in[1] = <<30, 31>> /\ Premise(1)
     /\ Len(stack[1]) = 1 /\ Top(1).st = "enter" /\ out[1] = <<>>
     /\ diffBody("", Top(1).av, Top(1).bv, EmptyMap, EmptyMap,
                 <<ValueOf(StrV("k"))>>, <<>>).emits = <<r>>
     /\ Overflow(r) /\ OpenRenderings(LineFormat(r.l, r.f), r.a) = {}

\* C3 (determinism): two calls of Diff on the same two inputs that have both
\* returned have handed the same lines, in the same order, to their sinks.
C3_Deterministic ==
  \A c, d \in Calls : (Done(c) /\ Done(d) /\ in[c] = in[d]) => out[c] = out[d]

\* the keys (strings) of a map value and the value stored under a key
KeysOf(v) == IF v.x = 0 THEN {} ELSE {MapTab[v.x][i][1].x : i \in 1..Len(MapTab[v.x])}
ValAt(v, k) ==
  MapTab[v.x][CHOOSE i \in 1..Len(MapTab[v.x]) : MapTab[v.x][i][1].x = k][2]

\* the label segment of a string key
KeySeg(k) == "[" \o Quote(k) \o "]"

RootMaps(c) ==
  /\ Started(c)
  /\ RootA(c).k = "map" /\ RootB(c).k = "map" /\ RootA(c).t = RootB(c).t

LeftOnly(c) == KeysOf(RootA(c)) \ KeysOf(RootB(c))
InBoth(c) == KeysOf(RootA(c)) \cap KeysOf(RootB(c))
RightOnly(c) == KeysOf(RootB(c)) \ KeysOf(RootA(c))

MissingRight(c, k) ==
  Report(KeySeg(k), "%q != (missing)", <<RVArg(ValueOf(ValAt(RootA(c), k)))>>)
MissingLeft(c, k) ==
  Report(KeySeg(k), "(missing) != %q", <<RVArg(ValueOf(ValAt(RootB(c), k)))>>)

\* exactly one index of I satisfies P
One(I, P(_)) == Cardinality({i \in I : P(i)}) = 1

\* the reports of a call on two maps, once the outermost invocation has run
\* its own code: the left-only keys first, each once
LeftPart(c) ==
  LET n == Cardinality(LeftOnly(c)) IN
  /\ Len(reports[c]) >= n
  /\ \A k \in LeftOnly(c) : One(1..n, LAMBDA i : reports[c][i] = MissingRight(c, k))

\* the recursive invocations of the outermost invocation: one per left key
\* that has an equal right key, on the values stored under it on each side
BothPart(c) ==
  LET kids == stack[c][1].kids IN
  /\ Len(kids) = Cardinality(InBoth(c))
  /\ \A k \in InBoth(c) :
       One(1..Len(kids),
           LAMBDA i : kids[i] = Kid(KeySeg(k), ValueOf(ValAt(RootA(c), k)),
                                    ValueOf(ValAt(RootB(c), k))))

\* the reports of a returned call on two maps: left-only, matched, right-only
WholeOutput(c) ==
  LET nl == Cardinality(LeftOnly(c))
      nr == Cardinality(RightOnly(c))
      n == Len(reports[c])
      mid == (nl + 1)..(n - nr)
  IN /\ n >= nl + nr
     /\ \A k \in RightOnly(c) :
          One((n - nr + 1)..n, LAMBDA i : reports[c][i] = MissingLeft(c, k))
     /\ \A i \in mid : \E k \in InBoth(c) :
          SubSeq(reports[c][i].l, 1, Len(KeySeg(k))) = KeySeg(k)
     /\ RootA(c).t = "map[string]int" =>
          \A k \in InBoth(c) :
            Cardinality({i \in mid : reports[c][i].l = KeySeg(k)})
              = IF ValAt(RootA(c), k).x # ValAt(RootB(c), k).x THEN 1 ELSE 0

\* C4 (map partitioning): comparing two maps of one type, every left key
\* without an equal right key is reported once as missing on the right, every
\* right key without an equal left key once as missing on the left, every
\* left key with an equal right key is recursed into once on the two values
\* stored under it, and the reports come left-only, matched, right-only.
C4_MapPartition ==
  \A c \in Calls :
    RootMaps(c) =>
      /\ (stack[c] # <<>> /\ stack[c][1].st = "loop") => (LeftPart(c) /\ BothPart(c))
      /\ Done(c) => (LeftPart(c) /\ WholeOutput(c))

\* the comparison of {a, b, %d} with {%d, c, d} has returned with its 5 reports
C4_Witness ==
  /\ Done(1) /\ in[1] = <<20, 21>> /\ Len(reports[1]) = 5
  /\ reports[1][3].f = "%d != %d"

\* call c takes a step in the step under consideration
Steps(c) == steps'[c] = steps[c] + 1

\* the reports call c makes in the step under consideration
NewReports(c) == SubSeq(reports'[c], Len(reports[c]) + 1, Len(reports'[c]))

\* the invocation on top of c's stack, as the step under consideration leaves it
Entered(c) == stack'[c][Len(stack[c])]

\* the invocation about to run compares two present values of different types
MismatchAtTop(c) ==
  /\ pc[c] = "run" /\ Top(c).st = "enter"
  /\ IsValid(Top(c).av) /\ IsValid(Top(c).bv)
  /\ Top(c).av.v.t # Top(c).bv.v.t

\* C5 (type mismatch is terminal): an invocation on two present values of
\* different types (the concrete values of two interfaces included) makes
\* exactly one report, whose body is '<left-type> != <right-type>', makes no
\* recursive invocation and no later report, and records nothing in either
\* VisitedSet.
C5_TypeMismatchTerminal ==
  /\ [] (\A c \in Calls : \A n \in 1..Len(stack[c]) :
           (/\ stack[c][n].st = "loop"
            /\ IsValid(stack[c][n].av) /\ IsValid(stack[c][n].bv)
            /\ stack[c][n].av.v.t # stack[c][n].bv.v.t)
           => (stack[c][n].kids = <<>> /\ stack[c][n].post = <<>>))
  /\ [][\A c \in Calls :
          (MismatchAtTop(c) /\ Steps(c)) =>
            /\ Len(NewReports(c)) = 1
            /\ NewReports(c)[1].l = Top(c).l
            /\ Sprintf(NewReports(c)[1].f, NewReports(c)[1].a)
                 = Top(c).av.v.t \o " != " \o Top(c).bv.v.t
            /\ Len(stack'[c]) = Len(stack[c])
            /\ Entered(c).kids = <<>> /\ Entered(c).post = <<>>
            /\ aVisited'[c] = aVisited[c] /\ bVisited'[c] = bVisited[c]]_vars

\* two slice elements of type interface{} holding an int and a string have
\* been compared: the interface pair is recorded, the concrete pair is not
C5_Witness ==
  /\ Done(1) /\ in[1] = <<17, 18>>
  /\ out[1] = <<"[0]: int != string">>
  /\ DOMAIN aVisited[1] = {<<144, "interface {}">>}

\* C6 (isolation of calls): a call starts with two empty VisitedSets, and
\* when it has returned it has made exactly the reports, and handed its sink
\* exactly the lines, of the same comparison run by itself, whatever another
\* call did in between.
C6_Isolated ==
  \A c \in Calls :
    /\ (pc[c] = "run" /\ steps[c] = 0) =>
         (aVisited[c] = EmptyMap /\ bVisited[c] = EmptyMap)
    /\ Done(c) =>
         /\ reports[c] = PdiffAlone(RootA(c), RootB(c), picks[c])
         /\ out[c] = Diff(RootA(c), RootB(c), picks[c])

\* two calls on the same pointers have both returned their two lines each
C6_Witness ==
  /\ Done(1) /\ Done(2) /\ in[1] = <<7, 9>> /\ in[2] = <<7, 9>>
  /\ Len(out[1]) = 2 /\ Len(out[2]) = 2

\* the invocation about to run compares two addressable values of one type
GuardAtTop(c) ==
  /\ pc[c] = "run" /\ Top(c).st = "enter"
  /\ IsValid(Top(c).av) /\ IsValid(Top(c).bv)
  /\ Top(c).av.v.t = Top(c).bv.v.t
  /\ Top(c).av.can /\ Top(c).bv.can

LeftRevisit(c) ==
  <<Report(Top(c).l, "%# v (previously visited) != %# v",
           <<FmtArg(Top(c).av), FmtArg(Top(c).bv)>>)>>
RightRevisit(c) ==
  <<Report(Top(c).l, "%# v != %# v (previously visited)",
           <<FmtArg(Top(c).av), FmtArg(Top(c).bv)>>)>>

\* the step under consideration ends the invocation without entering the subtree
NotEntered(c) == Entered(c).cycle /\ Entered(c).kids = <<>> /\ Entered(c).post = <<>>

\* C7 as claimed: the second case applies whenever the first does not and y
\* is recorded under a counterpart other than x.
C7_GuardRuleClaimed ==
  [][\A c \in Calls :
       (GuardAtTop(c) /\ Steps(c)) =>
         LET x == Visit(Top(c).av)
             y == Visit(Top(c).bv)
             aV == aVisited[c]
             bV == bVisited[c]
             first == x \in DOMAIN aV /\ aV[x] # y
             second == ~first /\ y \in DOMAIN bV /\ bV[y] # x
             third == x \in DOMAIN aV /\ aV[x] = y /\ y \in DOMAIN bV /\ bV[y] = x
         IN /\ first => (NewReports(c) = LeftRevisit(c) /\ NotEntered(c))
            /\ second => (NewReports(c) = RightRevisit(c) /\ NotEntered(c))
            /\ third => (NewReports(c) = <<>> /\ NotEntered(c))
            /\ ~Entered(c).cycle => (x \notin DOMAIN aV /\ y \notin DOMAIN bV)]_vars

\* C7 (cycle-guard rule, amended): for a pair (x, y) of addressable values of
\* one type: if x has a recorded counterpart other than y, one '(previously
\* visited)' report and the subtree is not entered; if x has no recorded
\* counterpart and y is recorded, one symmetric report and the subtree is
\* not entered; if x's recorded counterpart is y, no report and the subtree
\* is not entered, whatever y's entry names; the subtree is entered exactly
\* when neither is recorded.
C7_GuardRule ==
  [][\A c \in Calls :
       (GuardAtTop(c) /\ Steps(c)) =>
         LET x == Visit(Top(c).av)
             y == Visit(Top(c).bv)
             aV == aVisited[c]
             bV == bVisited[c]
         IN /\ (x \in DOMAIN aV /\ aV[x] # y)
                 => (NewReports(c) = LeftRevisit(c) /\ NotEntered(c))
            /\ (x \notin DOMAIN aV /\ y \in DOMAIN bV)
                 => (NewReports(c) = RightRevisit(c) /\ NotEntered(c) /\ bV[y] # x)
            /\ (x \in DOMAIN aV /\ aV[x] = y)
                 => (NewReports(c) = <<>> /\ NotEntered(c))
            /\ ~Entered(c).cycle <=> (x \notin DOMAIN aV /\ y \notin DOMAIN bV)]_vars

\* the third pair of []*T{&x, &x2, &x} and []*T{&y, &y, &y} has been met:
\* x was recorded with y and y with x2; the second pair was reported, the
\* third was cut off without a report
C7_Witness ==
  /\ pc[1] = "run" /\ in[1] = <<13, 14>> /\ Top(1).st = "loop"
  /\ Top(1).l = "[2]" /\ Top(1).av.v.t = "main.T" /\ Top(1).cycle
  /\ Len(reports[1]) = 1 /\ reports[1][1].l = "[1]"
  /\ reports[1][1].f = "%# v != %# v (previously visited)"
  /\ aVisited[1][<<64, "main.T">>] = <<32, "main.T">>
  /\ bVisited[1][<<32, "main.T">>] = <<16, "main.T">>

\* C8 as claimed: an entry, once created, keeps its first counterpart.
C8_StableClaimed ==
  [][\A c \in Calls :
       /\ \A k \in DOMAIN aVisited[c] :
            k \in DOMAIN aVisited'[c] /\ aVisited'[c][k] = aVisited[c][k]
       /\ \A k \in DOMAIN bVisited[c] :
            k \in DOMAIN bVisited'[c] /\ bVisited'[c][k] = bVisited[c][k]]_vars

\* C8 (VisitedSet growth, amended): during one top-level comparison the set
\* of keys of each VisitedSet only grows, and every visit of a pair (x, y) of
\* addressable values of one type, a revisit included, sets x's entry to y
\* and y's entry to x and leaves every other entry as it was: an entry names
\* the counterpart of the latest visit of its key, not of the first.  No other
\* step changes a VisitedSet.
C8_LatestCounterpart ==
  [][\A c \in Calls :
       pc[c] = "run" =>
         /\ DOMAIN aVisited[c] \subseteq DOMAIN aVisited'[c]
         /\ DOMAIN bVisited[c] \subseteq DOMAIN bVisited'[c]
         /\ IF GuardAtTop(c) /\ Steps(c)
            THEN /\ aVisited'[c] = Put(aVisited[c], Visit(Top(c).av), Visit(Top(c).bv))
                 /\ bVisited'[c] = Put(bVisited[c], Visit(Top(c).bv), Visit(Top(c).av))
            ELSE aVisited'[c] = aVisited[c] /\ bVisited'[c] = bVisited[c]]_vars

\* a one-node ring compared with a two-node ring: the left node, first met
\* with the right ring's first node, is now recorded with its second node
C8_Witness ==
  /\ in[1] = <<7, 10>>
  /\ <<16, "main.T">> \in DOMAIN aVisited[1]
  /\ aVisited[1][<<16, "main.T">>] = <<96, "main.T">>
  /\ Len(reports[1]) = 1

\* the identities of the addressable values: every heap cell and, in place,
\* the fields and elements of the structs and arrays stored there
RECURSIVE Places(_, _)
Places(v, a) ==
  {<<a, v.t>>} \cup
    (CASE v.k = "struct" ->
            UNION {Places(v.x[i], a + FieldOffset(v.t, i)) : i \in 1..Len(v.x)}
       [] v.k = "array" ->
            UNION {Places(v.x[i], a + (i - 1) * SizeOf(ElemType(v.t))) : i \in 1..Len(v.x)}
       [] OTHER -> {})
Addressable == UNION {Places(Heap[a], a) : a \in DOMAIN Heap}

PrimitiveTypes == {"int", "string"}

VisitedKeys(c) == DOMAIN aVisited[c] \cup DOMAIN bVisited[c]

\* C9 as claimed: the keys are identities of addressable composite values.
C9_CompositeKeysClaimed ==
  \A c \in Calls : \A k \in VisitedKeys(c) :
    k \in Addressable /\ k[2] \notin PrimitiveTypes

\* C9 (VisitedSet keys, amended): in every reachable state each key of
\* either VisitedSet is the identity of an addressable value of any kind,
\* composite or primitive (a scalar field of a struct reached through a
\* pointer gets an entry); no entry is created for a non-addressable value,
\* and each entry's counterpart is the identity of an addressable value too.
C9_AddressableKeys ==
  \A c \in Calls :
    /\ VisitedKeys(c) \subseteq Addressable
    /\ \A k \in DOMAIN aVisited[c] : aVisited[c][k] \in Addressable
    /\ \A k \in DOMAIN bVisited[c] : bVisited[c][k] \in Addressable

\* the int field V of the struct at 16, reached through a pointer, has an entry
C9_Witness ==
  /\ in[1] = <<7, 9>>
  /\ <<16, "int">> \in DOMAIN aVisited[1]
  /\ aVisited[1][<<16, "int">>] = <<48, "int">>

\* the label made of the path segments: a field name after a dot unless it
\* comes first, an index or a key in brackets with no dot
Extend(l, seg) ==
  IF seg = "" THEN l
  ELSE IF Ch(seg, 1) = "[" THEN l \o seg
  ELSE IF l = "" THEN seg ELSE l \o "." \o seg

\* C10 (line format): every line handed to the sink is '<label>: <body>', or
\* '<body>' when the label is empty, whatever characters the label holds
\* ('%' in a map key included); the label of an invocation is its parent's
\* label extended by the segment of the child, and the parent's label is the
\* same for every sibling.
C10_LineFormat ==
  \A c \in Calls :
    /\ Len(out[c]) = Len(reports[c])
    /\ \A i \in 1..Len(reports[c]) :
         LET r == reports[c][i] IN
         out[c][i] = (IF r.l # "" THEN r.l \o ": " ELSE "") \o Sprintf(r.f, r.a)
    /\ \A n \in 1..Len(stack[c]) :
         IF n = 1 THEN stack[c][n].l = ""
         ELSE LET p == stack[c][n - 1] IN
              stack[c][n].l = Extend(p.l, p.kids[p.i - 1].name)

\* Structural equality of two values, by the values alone: the same type and
\* agreement at every position reachable by the same path.  seen holds the
\* pairs of pointees, slice stores and maps on the path to this position,
\* taken to agree when they are met again (the relation is the largest one).
RECURSIVE Same(_, _, _)
Same(a, b, seen) ==
  IF a.k = "invalid" \/ b.k = "invalid" THEN a.k = b.k
  ELSE IF a.t # b.t THEN FALSE
  ELSE CASE a.k \in {"int", "string", "func"} -> a.x = b.x
         [] a.k \in {"array", "struct"} ->
              \A i \in 1..Len(a.x) : Same(a.x[i], b.x[i], seen)
         [] a.k = "interface" -> Same(a.x, b.x, seen)
         [] a.k = "ptr" ->
              IF a.x = 0 \/ b.x = 0 THEN a.x = b.x
              ELSE \/ <<"ptr", a.x, b.x>> \in seen
                   \/ Same(Heap[a.x], Heap[b.x], seen \cup {<<"ptr", a.x, b.x>>})
         [] a.k = "slice" ->
              /\ a.x[2] = b.x[2]
              /\ \/ <<"slice", a.x, b.x>> \in seen
                 \/ \A i \in 0..(a.x[2] - 1) :
                      Same(Heap[a.x[1] + i * SizeOf(ElemType(a.t))],
                           Heap[b.x[1] + i * SizeOf(ElemType(b.t))],
                           seen \cup {<<"slice", a.x, b.x>>})
         [] a.k = "map" ->
              /\ KeysOf(a) = KeysOf(b)
              /\ \/ <<"map", a.x, b.x>> \in seen
                 \/ \A k \in KeysOf(a) :
                      Same(ValAt(a, k), ValAt(b, k), seen \cup {<<"map", a.x, b.x>>})

StructurallyEqual(a, b) == Same(a, b, {})

\* C11 (soundness): a call of Diff(a, b) that has returned no line was given
\* structurally equal values: the same type and agreement at every position
\* reachable by the same path, a nil slice or map counting as an empty one;
\* the subtrees skipped on a consistent revisit hide no disagreement.
C11_Sound ==
  \A c \in Calls :
    (Done(c) /\ out[c] = <<>>) => StructurallyEqual(RootA(c), RootB(c))

\* two distinct one-node rings have been compared without a line: the second
\* meeting of the two nodes was a consistent revisit and was skipped
C11_Witness ==
  /\ Done(1) /\ in[1] = <<7, 8>> /\ out[1] = <<>>
  /\ aVisited[1][<<16, "main.T">>] = <<32, "main.T">>
  /\ StructurallyEqual(Roots[7], Roots[8])
  /\ ~StructurallyEqual(Roots[13], Roots[14])
====
